---- MODULE Spec2Model ----
(***************************************************************************)
(* Synchronization and delta-deployment engine of pubAi (DevManager).      *)
(*                                                                         *)
(* One project is modelled.  Its state is the remote FTP tree, the local   *)
(* working copy, the raw mirror, and the metadata files (initial baseline, *)
(* sync-rule state, delta manifest).  The engine operations runInitialSync,*)
(* autoUploadChangedFiles, runDeploy and runRestoreInitial are one action  *)
(* each; the FTP transport (ftpEngine.ts) is modelled by operators that    *)
(* run the retry loop of the code against a fault script.                  *)
(*                                                                         *)
(* Spec follows the engine operations of one project.  FtpSpec follows one *)
(* transport call statement by statement (new Client, the try block, catch,*)
(* finally) and checks that the retry-loop operators give the same result. *)
(*                                                                         *)
(* A relative path is a sequence of segments: "b/c.txt" is <<"b","c.txt">>,*)
(* "./a.txt" is <<".","a.txt">>, and a leading slash gives a leading empty *)
(* segment: "/d.txt" is <<"","d.txt">>.  File content is a small number,   *)
(* 0 meaning "no such file".                                               *)
(***************************************************************************)
EXTENDS Integers, Sequences, FiniteSets, TLC

\* ------------------------------------------------------------------ bounds
\* largest content value a file can have (1 = as on the server at first)
MaxContent == 2
\* largest number of paths in one autoUploadChangedFiles call
MaxBatch == 2
\* largest number of user edits and engine operations in one behaviour
MaxSteps == 4

\* ------------------------------------------------- program constants
MAX_RETRY == 3

\* ------------------------------------------------------------------ paths
PA == <<"a.txt">>
PD == <<"d.txt">>

\* regular files that can exist under a root (local, raw or remote)
Files == {PA, PD}

\* the Codex configuration file of a project: config.toml in the directory
\* .codex-home of the working copy
CodexHome == ".codex-home"
CodexConfigPath == <<CodexHome, "config.toml">>

\* files of a working copy in which Codex has been used
WalkFiles == Files \cup {CodexConfigPath}

\* spellings a caller can hand to autoUploadChangedFiles
Spellings == Files \cup { <<"", "d.txt">> }

\* spellings that do not name a file of the model by its plain name: the
\* same file through "./", a path that leaves the root, the root itself,
\* and the directory b
WideSpellings ==
  Spellings \cup { <<".", "a.txt">>, <<"..", "a.txt">>, <<".">>, <<"b">> }

Outside == <<"..">>

TokRank(t) ==
  CASE t = ".." -> 0
    [] t = "." -> 1
    [] t = ".codex-home" -> 2
    [] t = "" -> 3
    [] t = "a.txt" -> 4
    [] t = "b" -> 5
    [] t = "config.toml" -> 6
    [] t = "d.txt" -> 7
    [] OTHER -> 8

RECURSIVE PathLess(_, _)
PathLess(p, q) ==
  IF p = <<>> THEN q # <<>>
  ELSE IF q = <<>> THEN FALSE
  ELSE IF Head(p) = Head(q) THEN PathLess(Tail(p), Tail(q))
  ELSE TokRank(Head(p)) < TokRank(Head(q))

RECURSIVE SortBy(_)
SortBy(S) ==
  IF S = {} THEN <<>>
  ELSE LET m == CHOOSE x \in S : \A y \in S : x = y \/ PathLess(x, y)
       IN <<m>> \o SortBy(S \ {m})

SeqToSet(s) == { s[i] : i \in 1..Len(s) }

RECURSIVE StripLeadingSlashes(_)
StripLeadingSlashes(p) ==
  IF p # <<>> /\ Head(p) = "" THEN StripLeadingSlashes(Tail(p)) ELSE p

\* tables of the path functions over the paths of the model
NormalizeTable == [p \in WideSpellings \cup {<<>>} |-> StripLeadingSlashes(p)]

normalizeRelativePath(p) == NormalizeTable[p]

\* every path the engine can hold after normalization
Paths == { NormalizeTable[p] : p \in Spellings }

WidePaths == { NormalizeTable[p] : p \in WideSpellings }

SortTable == [S \in SUBSET (WidePaths \cup WalkFiles) |-> SortBy(S)]

\* [...set].sort((a, b) => a.localeCompare(b))
SortPaths(S) == SortTable[S]

RECURSIVE ResolveFrom(_, _)
ResolveFrom(stack, p) ==
  IF stack = Outside THEN Outside
  ELSE IF p = <<>> THEN stack
  ELSE IF Head(p) = "" \/ Head(p) = "." THEN ResolveFrom(stack, Tail(p))
  ELSE IF Head(p) = ".."
       THEN IF stack = <<>> THEN Outside
            ELSE ResolveFrom(SubSeq(stack, 1, Len(stack) - 1), Tail(p))
  ELSE ResolveFrom(Append(stack, Head(p)), Tail(p))

ResolveTable == [p \in WidePaths \cup WalkFiles |-> ResolveFrom(<<>>, p)]

\* path.resolve(root, p) expressed relative to root
Resolve(p) == ResolveTable[p]

isPathInsideLocal(p) == Resolve(p) # <<>> /\ Resolve(p) # Outside

\* fs.stat(path.resolve(root, p)) is a regular file of the tree
IsFileIn(tree, p) == Resolve(p) \in Files /\ tree[Resolve(p)] # 0

NoFiles == [f \in Files |-> 0]

\* keys of collectLocalFileSnapshotMap(root)
SnapshotPaths(tree) == { f \in DOMAIN tree : tree[f] # 0 }

\* ------------------------------------------------------- FTP environment
\* A fault hits one connection attempt: at = 0 fails before any item is
\* handled (connect, login, first listing), at = k fails at the k-th item.
NoFault == [at |-> -1, kind |-> "none"]
Transient(k) == [at |-> k, kind |-> "transient"]
Fatal(k) == [at |-> k, kind |-> "fatal"]
\* the server carries out the k-th command, the connection breaks before
\* the reply arrives
ReplyLost(k) == [at |-> k, kind |-> "replylost"]

\* fault scripts of one transport operation: entry i hits attempt i,
\* attempts beyond the script are healthy
Scripts ==
  { <<>>,
    <<Transient(1), Transient(1), Transient(1)>>,
    <<Fatal(2)>> }

FaultOf(script, attempt) ==
  IF attempt <= Len(script) THEN script[attempt] ELSE NoFault

\* server permissions: files whose listing/download answers "Permission
\* denied", and files whose DELE answers "Permission denied"
Acls ==
  { [noRead |-> {}, noDelete |-> {}],
    [noRead |-> {PA}, noDelete |-> {}],
    [noRead |-> {}, noDelete |-> {PD}] }

\* variant: no error is retried
isRetryableFtpError_Never(kind) == FALSE

\* variant: every error is retried
isRetryableFtpError_Always(kind) == TRUE

isRetryableFtpError(kind) == kind = "transient"

\* variant: every reply that is not transient is skipped like a denial
isPermissionDeniedFtpError_AnyReply(kind) == kind \in {"denied", "fatal"}

isPermissionDeniedFtpError(kind) == kind = "denied"

\* Error messages are sequences of words.  The classes above are what the two
\* regular expressions of ftpEngine.ts make of a message.
MsgTimedOut == <<"connect", "ETIMEDOUT">>
MsgDataConnection == <<"Can't", "open", "data", "connection">>
MsgPermissionDenied == <<"550", "Permission", "denied">>
MsgNoSuchFile == <<"550", "No", "such", "file">>
MsgLoginIncorrect == <<"530", "Login", "incorrect">>

HasPhrase(msg, w1, w2) == \E i \in 1..(Len(msg) - 1) : msg[i] = w1 /\ msg[i + 1] = w2

\* /ETIMEDOUT|ECONNRESET|EPIPE|Socket closed|data connection/i
IsRetryableMessage(msg) ==
  \/ \E i \in 1..Len(msg) : msg[i] \in {"ETIMEDOUT", "ECONNRESET", "EPIPE"}
  \/ HasPhrase(msg, "Socket", "closed")
  \/ HasPhrase(msg, "data", "connection")

\* /(^|\\s)550\\b|Permission denied/i : the backslashes are doubled in the
\* source, so the first alternative asks for the characters 550\b, at the
\* start of the message or after the characters \s
IsPermissionDeniedMessage(msg) ==
  \/ msg # <<>> /\ msg[1] = "550\\b"
  \/ \E i \in 1..Len(msg) : msg[i] = "\\s550\\b"
  \/ HasPhrase(msg, "Permission", "denied")

\* the class of a message
ErrorKind(msg) ==
  IF IsPermissionDeniedMessage(msg) THEN "denied"
  ELSE IF IsRetryableMessage(msg) THEN "transient"
  ELSE "fatal"

\* the remote file a relative path names (joinRemotePath under "/")
RemoteFile(p) == Resolve(p)

\* ------------------------------------------------------------ transport
\* remote tree after the first n entries of files were stored
UploadPrefix(rem, files, n) ==
  [f \in Files |->
     LET idx == { i \in 1..n : RemoteFile(files[i].relativePath) = f }
     IN IF idx = {} THEN rem[f]
        ELSE files[CHOOSE i \in idx : \A j \in idx : j <= i].content]

\* one connection attempt of uploadDeltaFiles
UploadAttempt(rem, files, fault) ==
  IF fault.kind = "none" \/ fault.at > Len(files)
  THEN [error |-> "none", remote |-> UploadPrefix(rem, files, Len(files)),
        done |-> Len(files)]
  ELSE LET n == IF fault.at = 0 THEN 0 ELSE fault.at - 1
       IN [error |-> fault.kind, remote |-> UploadPrefix(rem, files, n), done |-> n]

RECURSIVE UploadLoop(_, _, _, _, _)
UploadLoop(rem, files, script, attempt, maxDone) ==
  LET r == UploadAttempt(rem, files, FaultOf(script, attempt))
      md == IF r.done > maxDone THEN r.done ELSE maxDone
  IN IF r.error = "none"
     THEN [status |-> "ok", remote |-> r.remote, uploadedCount |-> Len(files),
           attempts |-> attempt, stored |-> Len(files)]
     ELSE IF ~isRetryableFtpError(r.error) \/ attempt = MAX_RETRY
     THEN [status |-> "raise", remote |-> r.remote, uploadedCount |-> 0,
           attempts |-> attempt, stored |-> md]
     ELSE UploadLoop(r.remote, files, script, attempt + 1, md)

\* files: sequence of [relativePath, content]; stored = how many entries of
\* files reached the server over all attempts
uploadDeltaFiles(rem, files, script) == UploadLoop(rem, files, script, 1, 0)

\* items i..Len(paths) of one connection attempt of deleteRemoteFiles
RECURSIVE DeleteItems(_, _, _, _, _, _, _)
DeleteItems(rem, paths, i, fault, acl, deleted, removed) ==
  IF i > Len(paths)
  THEN [error |-> "none", remote |-> rem, deleted |-> deleted, removed |-> removed]
  ELSE LET f == RemoteFile(paths[i])
           reply == IF f \in acl.noDelete THEN "denied"
                    ELSE IF f \notin Files \/ rem[f] = 0 THEN "notfound"
                    ELSE "none"
           kind == IF fault.at = i THEN fault.kind ELSE reply
       IN IF kind = "replylost"
          THEN IF reply = "none"
               THEN [error |-> "transient", remote |-> [rem EXCEPT ![f] = 0],
                     deleted |-> deleted, removed |-> removed \cup {f}]
               ELSE [error |-> "transient", remote |-> rem,
                     deleted |-> deleted, removed |-> removed]
          ELSE IF kind = "none"
          THEN DeleteItems([rem EXCEPT ![f] = 0], paths, i + 1, fault, acl,
                           deleted + 1, removed \cup {f})
          ELSE IF isPermissionDeniedFtpError(kind)
          THEN DeleteItems(rem, paths, i + 1, fault, acl, deleted, removed)
          ELSE [error |-> kind, remote |-> rem, deleted |-> deleted, removed |-> removed]

DeleteAttempt(rem, paths, fault, acl) ==
  IF fault.at = 0
  THEN [error |-> fault.kind, remote |-> rem, deleted |-> 0, removed |-> {}]
  ELSE DeleteItems(rem, paths, 1, fault, acl, 0, {})

RECURSIVE DeleteLoop(_, _, _, _, _, _)
DeleteLoop(rem, paths, script, acl, attempt, removed) ==
  LET r == DeleteAttempt(rem, paths, FaultOf(script, attempt), acl)
      all == removed \cup r.removed
  IN IF r.error = "none"
     THEN [status |-> "ok", remote |-> r.remote, deletedCount |-> r.deleted,
           attempts |-> attempt, removed |-> all]
     ELSE IF ~isRetryableFtpError(r.error) \/ attempt = MAX_RETRY
     THEN [status |-> "raise", remote |-> r.remote, deletedCount |-> 0,
           attempts |-> attempt, removed |-> all]
     ELSE DeleteLoop(r.remote, paths, script, acl, attempt + 1, all)

\* paths: sequence of relative paths; removed = remote files actually removed
deleteRemoteFiles(rem, paths, script, acl) == DeleteLoop(rem, paths, script, acl, 1, {})

\* local tree after the first n entries of the listing were handled
DownloadPrefix(rem, entries, n, acl) ==
  [f \in Files |->
     IF (\E i \in 1..n : entries[i] = f) /\ f \notin acl.noRead THEN rem[f] ELSE 0]

\* variant: the destination directory is not emptied before the download
DownloadAttempt_NoClear(rem, loc, fault, acl) ==
  LET entries == SortPaths(SnapshotPaths(rem))
      n == IF fault.kind = "none" \/ fault.at > Len(entries) THEN Len(entries)
           ELSE IF fault.at = 0 THEN 0 ELSE fault.at - 1
      got == DownloadPrefix(rem, entries, n, acl)
  IN [error |-> IF n = Len(entries) /\ fault.at # 0 THEN "none" ELSE fault.kind,
      local |-> [f \in Files |-> IF got[f] # 0 THEN got[f] ELSE loc[f]]]

\* one connection attempt of downloadInitialSkin: connect, list the remote
\* path, emptyDirectory(local), downloadDirectoryRecursive
DownloadAttempt(rem, loc, fault, acl) ==
  LET entries == SortPaths(SnapshotPaths(rem))
  IN IF fault.at = 0
     THEN [error |-> fault.kind, local |-> loc]
     ELSE IF fault.kind = "none" \/ fault.at > Len(entries)
     THEN [error |-> "none", local |-> DownloadPrefix(rem, entries, Len(entries), acl)]
     ELSE [error |-> fault.kind, local |-> DownloadPrefix(rem, entries, fault.at - 1, acl)]

RECURSIVE DownloadLoop(_, _, _, _, _)
DownloadLoop(rem, loc, script, acl, attempt) ==
  LET r == DownloadAttempt(rem, loc, FaultOf(script, attempt), acl)
  IN IF r.error = "none"
     THEN [status |-> "ok", local |-> r.local,
           fileCount |-> Cardinality(SnapshotPaths(r.local)), attempts |-> attempt]
     ELSE IF ~isRetryableFtpError(r.error) \/ attempt = MAX_RETRY
     THEN [status |-> "raise", local |-> r.local, fileCount |-> 0, attempts |-> attempt]
     ELSE DownloadLoop(rem, r.local, script, acl, attempt + 1)

downloadInitialSkin(rem, loc, script, acl) == DownloadLoop(rem, loc, script, acl, 1)

\* ---------------------------------------------------------------- state
VARIABLES
  config,        \* config.json: solutionType and whether host/user/password are set
  acl,           \* permissions of the FTP account on the remote tree
  remote,        \* remote tree under the project's remote path
  local,         \* working copy under <project>/local
  raw,           \* raw mirror under <project>/raw
  baseline,      \* .sync/initial-baseline.json
  tracked,       \* .sync/sync-rule-state.json: trackedNewServerFiles
  manifest,      \* .deploy/<solution>-delta-manifest.json: files (0 = no entry)
  last,          \* what the last engine operation did and returned
  origRemote,    \* files on the server when the last successful Initial Sync listed it
  uploadedSince, \* non-baseline paths the engine stored remotely since the baseline
                 \* and has not removed since
  steps,         \* user edits and engine operations so far
  ftp,           \* one transport call, statement by statement (FtpSpec)
  diff,          \* one call of diffLocalFileSnapshotMap (DiffSpec)
  ui,            \* the windows' busy flags and the IPC calls in flight (CallerSpec)
  calls,         \* two autoUploadChangedFiles calls, await by await (InterleaveSpec)
  walk           \* one walk of a working copy and what its callers make of it (WalkSpec)

vars == <<config, acl, remote, local, raw, baseline, tracked, manifest, last,
          origRemote, uploadedSince, steps, ftp, diff, ui, calls, walk>>

Configs ==
  { [solutionType |-> "cafe24", ftpComplete |-> TRUE],
    [solutionType |-> "cafe24", ftpComplete |-> FALSE],
    [solutionType |-> "makeshop", ftpComplete |-> TRUE] }

\* remote trees the project can start from
InitialRemotes == { [f \in Files |-> IF f = PD THEN 0 ELSE 1] }

NoBaseline == [exists |-> FALSE, files |-> {}]

NoResult ==
  [op |-> "none", status |-> "none",
   upCalled |-> FALSE, upArgs |-> <<>>,
   delCalled |-> FALSE, delArgs |-> <<>>,
   removed |-> {}, trackedRead |-> {}, deleted |-> {},
   localRemoved |-> {}, localCreated |-> {},
   uploadedFiles |-> <<>>, deletedFiles |-> <<>>,
   restoredProtectedFiles |-> <<>>, manualDeleteSkippedFiles |-> <<>>,
   protectedMissingRaw |-> <<>>, baselineFiles |-> <<>>,
   uploadedCount |-> 0, deletedCount |-> 0,
   attempted |-> FALSE, uploaded |-> FALSE, upserted |-> {},
   dlCalled |-> FALSE, transportFailed |-> FALSE, raised |-> FALSE]

\* no transport call is being followed
FtpIdle == [op |-> "none"]

\* diffLocalFileSnapshotMap is not being called
DiffIdle == [pc |-> "idle"]

\* no window is being followed
UiIdle == [pc |-> "idle"]

Init ==
  /\ ftp = FtpIdle
  /\ diff = DiffIdle
  /\ ui = UiIdle
  /\ calls = <<>>
  /\ walk = [pc |-> "idle"]
  /\ config \in Configs
  /\ acl \in Acls
  /\ remote \in InitialRemotes
  /\ local = NoFiles
  /\ raw = NoFiles
  /\ baseline = NoBaseline
  /\ tracked = {}
  /\ manifest = NoFiles
  /\ last = NoResult
  /\ origRemote = {}
  /\ uploadedSince = {}
  /\ steps = 0

\* variant: every solution type is taken for an FTP solution
IsFtpSolution_Any(c) == TRUE

IsFtpSolution(c) == c.solutionType = "cafe24" \/ c.solutionType = "godomall"

\* variant: the host/user/password test always passes
HasFtpCredentials_Always(c) == TRUE

\* !config.ftpHost || !config.ftpUser || !config.ftpPassword.value is false
HasFtpCredentials(c) == c.ftpComplete

\* the operation throws before it has done anything
ConfigurationError(result) == [result EXCEPT !.raised = TRUE]

\* variant: the catch block returns a failure summary instead of rethrowing
RaiseToCaller_AsSummary(result) ==
  [result EXCEPT !.status = "failed", !.transportFailed = TRUE]

\* catch (error) { log; throw error }: the transport error reaches the caller
RaiseToCaller(result) ==
  [result EXCEPT !.status = "raise", !.transportFailed = TRUE, !.raised = TRUE]

\* the catch block of autoUploadChangedFiles: a result is returned normally
FailureSummary(result) ==
  [result EXCEPT !.status = "failed", !.transportFailed = TRUE,
                 !.attempted = TRUE, !.uploaded = FALSE]

\* readInitialBaseline: null when the file is missing
readInitialBaseline(b) == b

\* writeSyncRuleState: normalize, drop empty strings, de-duplicate
writeSyncRuleState(paths) == { normalizeRelativePath(p) : p \in paths } \ {<<>>}

\* files an operation removed from / created in the working copy
RemovedBy(before, after) == { f \in Files : before[f] # 0 /\ after[f] = 0 }
CreatedBy(before, after) == { f \in Files : before[f] = 0 /\ after[f] # 0 }

\* paths of the first n entries of an upload list
StoredPaths(files, n) == { files[i].relativePath : i \in 1..n }

\* uploadedSince after an upload stored `stored` and a delete removed `removed`
NextUploadedSince(prev, stored, removed, baselineSet) ==
  { p \in prev \cup (stored \ baselineSet) : RemoteFile(p) \notin removed }

\* ------------------------------------------------------------ user edits
\* the user creates, modifies or deletes a file of the working copy
LocalEdit(f, v) ==
  /\ local[f] # v
  /\ local' = [local EXCEPT ![f] = v]
  /\ last' = [NoResult EXCEPT !.op = "edit"]
  /\ UNCHANGED <<config, acl, remote, raw, baseline, tracked, manifest,
                 origRemote, uploadedSince>>

\* ---------------------------------------------------------- Initial Sync
\* captureInitialRawSnapshot: mirror local into raw, persist the baseline,
\* reset the sync-rule state
\* variant: the mirror directory is removed but the working copy is not copied
captureInitialRawSnapshot_EmptyMirror(loc) ==
  [raw |-> NoFiles,
   fileList |-> SortPaths(SnapshotPaths(loc)),
   baseline |-> [exists |-> TRUE, files |-> SnapshotPaths(loc)],
   tracked |-> writeSyncRuleState({})]

captureInitialRawSnapshot(loc) ==
  [raw |-> loc,
   fileList |-> SortPaths(SnapshotPaths(loc)),
   baseline |-> [exists |-> TRUE, files |-> SeqToSet(SortPaths(SnapshotPaths(loc)))],
   tracked |-> writeSyncRuleState({})]

runInitialSync(script) ==
  IF config.solutionType = "makeshop"
  THEN /\ last' = [NoResult EXCEPT !.op = "sync", !.status = "manual"]
       /\ UNCHANGED <<config, acl, remote, local, raw, baseline, tracked,
                      manifest, origRemote, uploadedSince>>
  ELSE IF ~HasFtpCredentials(config)
  THEN /\ last' = ConfigurationError([NoResult EXCEPT !.op = "sync", !.status = "config"])
       /\ UNCHANGED <<config, acl, remote, local, raw, baseline, tracked,
                      manifest, origRemote, uploadedSince>>
  ELSE LET dl == downloadInitialSkin(remote, local, script, acl)
           cap == captureInitialRawSnapshot(dl.local)
       IN IF dl.status = "ok"
          THEN /\ local' = dl.local
               /\ raw' = cap.raw
               /\ baseline' = cap.baseline
               /\ tracked' = cap.tracked
               /\ origRemote' = SnapshotPaths(remote)
               /\ uploadedSince' = {}
               /\ last' = [NoResult EXCEPT !.op = "sync", !.status = "ok",
                                           !.dlCalled = TRUE,
                                           !.trackedRead = tracked,
                                           !.baselineFiles = cap.fileList]
               /\ UNCHANGED <<config, acl, remote, manifest>>
          ELSE /\ local' = dl.local
               /\ last' = RaiseToCaller([NoResult EXCEPT !.op = "sync",
                                           !.dlCalled = TRUE,
                                           !.trackedRead = tracked])
               /\ UNCHANGED <<config, acl, remote, raw, baseline, tracked,
                              manifest, origRemote, uploadedSince>>

\* ----------------------------------------------------------- Auto-Upload
\* map(normalizeRelativePath).filter(Boolean), de-duplicated
NormalizeList(paths) == { normalizeRelativePath(p) : p \in paths } \ {<<>>}

BaselineSet(b) == IF b.exists THEN { normalizeRelativePath(p) : p \in b.files } ELSE {}

\* deleted Baseline paths that are copied back from the raw mirror
protectedRestored(nd, baselineSet, rawTree) ==
  { p \in nd : p \in baselineSet /\ IsFileIn(rawTree, p) /\ isPathInsideLocal(p) }

\* deleted Baseline paths without a regular-file copy in the raw mirror
protectedMissingRaw(nd, baselineSet, rawTree) ==
  { p \in nd : p \in baselineSet /\ ~IsFileIn(rawTree, p) }

\* variant: the Baseline test of the deleted-path loop is missing
deletableOnServer_NoProtection(nd, baselineSet, trackedSet) ==
  { p \in nd : p \in baselineSet \/ p \in trackedSet }

\* variant: deleted paths are not checked against the tracked-new set
deletableOnServer_Untracked(nd, baselineSet, trackedSet) ==
  { p \in nd : p \notin baselineSet }

\* deleted paths that are deleted on the server
deletableOnServer(nd, baselineSet, trackedSet) ==
  { p \in nd : p \notin baselineSet /\ p \in trackedSet }

\* deleted paths that are neither Baseline nor tracked-new
manualDeleteSkipped(nd, baselineSet, trackedSet) ==
  { p \in nd : p \notin baselineSet /\ p \notin trackedSet }

\* variant: the protected file is reported but not copied back
CopyProtected_NoCopy(loc, rawTree, restored) == loc

\* fs.copyFile(raw copy, local target) for every restored path
CopyProtected(loc, rawTree, restored) ==
  [f \in Files |-> IF \E p \in restored : Resolve(p) = f THEN rawTree[f] ELSE loc[f]]

\* upload list: the given paths in sorted order, read from tree
MakeUploads(paths, tree) ==
  LET sorted == SortPaths(paths)
  IN [i \in 1..Len(sorted) |->
        [relativePath |-> sorted[i], content |-> tree[Resolve(sorted[i])]]]

\* variant: the stat of the upload list is missing, a path of a file that
\* does not exist is handed to the upload
UploadablePaths_Unfiltered(upsertSet, loc) ==
  { p \in upsertSet : isPathInsideLocal(p) /\ Resolve(p) \in Files }

\* upsert paths that are existing regular files strictly inside local
UploadablePaths(upsertSet, loc) ==
  { p \in upsertSet : isPathInsideLocal(p) /\ IsFileIn(loc, p) }

\* variant: every uploaded path is tracked, Baseline paths included
NextTracked_TrackAll(trackedSet, uploadPaths, deletable, baselineSet) ==
  writeSyncRuleState((trackedSet \cup uploadPaths) \ deletable)

\* trackedSet after the transport step
NextTracked(trackedSet, uploadPaths, deletable, baselineSet) ==
  writeSyncRuleState((trackedSet \cup { p \in uploadPaths : p \notin baselineSet }) \ deletable)

\* variant: the remote deletes are issued first, the uploads after them
autoUploadChangedFiles_DeleteFirst(upsertedPaths, deletedPaths) ==
  LET normalizedDeleted == NormalizeList(deletedPaths)
      baselineSet == BaselineSet(readInitialBaseline(baseline))
      deletable == deletableOnServer(normalizedDeleted, baselineSet, tracked)
      uploadPaths == UploadablePaths(NormalizeList(upsertedPaths), local)
      uploadFiles == MakeUploads(uploadPaths, local)
      del == deleteRemoteFiles(remote, SortPaths(deletable), <<>>, acl)
      up == uploadDeltaFiles(del.remote, uploadFiles, <<>>)
  IN /\ IsFtpSolution(config) /\ HasFtpCredentials(config)
     /\ del.status = "ok"
     /\ remote' = up.remote
     /\ tracked' = NextTracked(tracked, uploadPaths, deletable, baselineSet)
     /\ uploadedSince' = NextUploadedSince(uploadedSince,
           StoredPaths(uploadFiles, up.stored), del.removed, baselineSet)
     /\ last' = [NoResult EXCEPT !.op = "auto", !.status = "ok", !.attempted = TRUE,
                   !.trackedRead = tracked, !.deleted = normalizedDeleted,
                   !.upCalled = (uploadFiles # <<>>), !.upArgs = SortPaths(uploadPaths),
                   !.delCalled = (deletable # {}), !.delArgs = SortPaths(deletable),
                   !.removed = del.removed,
                   !.uploadedFiles = SortPaths(uploadPaths),
                   !.deletedFiles = SortPaths(deletable),
                   !.uploadedCount = up.uploadedCount,
                   !.deletedCount = del.deletedCount]
     /\ UNCHANGED <<config, acl, local, raw, baseline, manifest, origRemote>>

autoUploadChangedFiles(upsertedPaths, deletedPaths) ==
  LET normalizedUpserts == NormalizeList(upsertedPaths)
      normalizedDeleted == NormalizeList(deletedPaths)
      baselineSet == BaselineSet(readInitialBaseline(baseline))
      trackedSet == tracked
      restored == protectedRestored(normalizedDeleted, baselineSet, raw)
      missing == protectedMissingRaw(normalizedDeleted, baselineSet, raw)
      deletable == deletableOnServer(normalizedDeleted, baselineSet, trackedSet)
      skipped == manualDeleteSkipped(normalizedDeleted, baselineSet, trackedSet)
      local1 == CopyProtected(local, raw, restored)
      upsertSet == normalizedUpserts \cup restored
      uploadPaths == UploadablePaths(upsertSet, local1)
      uploadFiles == MakeUploads(uploadPaths, local1)
      delList == SortPaths(deletable)
      base == [NoResult EXCEPT !.op = "auto", !.trackedRead = tracked,
                 !.upserted = normalizedUpserts,
                 !.deleted = normalizedDeleted,
                 !.localCreated = CreatedBy(local, local1),
                 !.restoredProtectedFiles = SortPaths(restored),
                 !.manualDeleteSkippedFiles = SortPaths(skipped),
                 !.protectedMissingRaw = SortPaths(missing)]
  IN /\ local' = local1
     /\ UNCHANGED <<config, acl, raw, baseline, manifest, origRemote>>
     /\ IF ~IsFtpSolution(config)
        THEN /\ last' = [base EXCEPT !.status = "notarget"]
             /\ UNCHANGED <<remote, tracked, uploadedSince>>
        ELSE IF ~HasFtpCredentials(config)
        THEN /\ last' = [base EXCEPT !.status = "skipped", !.attempted = TRUE]
             /\ UNCHANGED <<remote, tracked, uploadedSince>>
        ELSE \E us \in (IF uploadFiles = <<>> THEN {<<>>} ELSE Scripts) :
          LET up == IF uploadFiles = <<>>
                    THEN [status |-> "ok", remote |-> remote, uploadedCount |-> 0,
                          attempts |-> 0, stored |-> 0]
                    ELSE uploadDeltaFiles(remote, uploadFiles, us)
              called == [base EXCEPT !.upCalled = (uploadFiles # <<>>),
                           !.upArgs = SortPaths(uploadPaths)]
          IN IF up.status = "raise"
             THEN /\ remote' = up.remote
                  /\ uploadedSince' = NextUploadedSince(uploadedSince,
                        StoredPaths(uploadFiles, up.stored), {}, baselineSet)
                  /\ last' = FailureSummary(called)
                  /\ UNCHANGED tracked
             ELSE \E ds \in (IF delList = <<>> THEN {<<>>} ELSE Scripts) :
               LET del == IF delList = <<>>
                          THEN [status |-> "ok", remote |-> up.remote, deletedCount |-> 0,
                                attempts |-> 0, removed |-> {}]
                          ELSE deleteRemoteFiles(up.remote, delList, ds, acl)
                   called2 == [called EXCEPT !.delCalled = (delList # <<>>),
                                 !.delArgs = delList, !.removed = del.removed]
               IN /\ remote' = del.remote
                  /\ uploadedSince' = NextUploadedSince(uploadedSince,
                        StoredPaths(uploadFiles, up.stored), del.removed, baselineSet)
                  /\ IF del.status = "raise"
                     THEN /\ last' = FailureSummary(called2)
                          /\ UNCHANGED tracked
                     ELSE /\ tracked' = NextTracked(trackedSet, uploadPaths, deletable,
                                                    baselineSet)
                          /\ last' = [called2 EXCEPT !.status = "ok",
                                        !.attempted = TRUE,
                                        !.uploaded = (up.uploadedCount > 0
                                                      \/ del.deletedCount > 0),
                                        !.uploadedFiles = SortPaths(uploadPaths),
                                        !.deletedFiles = delList,
                                        !.uploadedCount = up.uploadedCount,
                                        !.deletedCount = del.deletedCount]

\* ---------------------------------------------------------------- Deploy
\* variant: only paths without a manifest entry count as changed
detectChangedFiles_NewOnly(snapshot, man) ==
  { f \in SnapshotPaths(snapshot) : man[f] = 0 }

\* snapshot entries missing from the manifest or with another fingerprint
detectChangedFiles(snapshot, man) ==
  { f \in SnapshotPaths(snapshot) : man[f] = 0 \/ man[f] # snapshot[f] }

\* variant: the manifest written after a Deploy has no entries
toDeltaManifest_Empty(snapshot) == NoFiles

toDeltaManifest(snapshot) == snapshot

\* variant: Deploy captures the working copy as a new Baseline and mirror
runDeploy_Recapture(script) ==
  /\ last' = [NoResult EXCEPT !.op = "deploy", !.status = "ok"]
  /\ raw' = captureInitialRawSnapshot(local).raw
  /\ baseline' = captureInitialRawSnapshot(local).baseline
  /\ UNCHANGED <<config, acl, remote, local, tracked, manifest, origRemote,
                 uploadedSince>>

\* variant: Deploy also deletes the remote files whose manifest entry has no
\* local file any more
runDeploy_DeleteStale(script) ==
  LET stale == { f \in Files : manifest[f] # 0 /\ local[f] = 0 }
  IN /\ remote' = [f \in Files |-> IF f \in stale THEN 0 ELSE remote[f]]
     /\ manifest' = toDeltaManifest(local)
     /\ last' = [NoResult EXCEPT !.op = "deploy", !.status = "ok",
                                 !.delCalled = (stale # {}),
                                 !.delArgs = SortPaths(stale)]
     /\ UNCHANGED <<config, acl, local, raw, baseline, tracked, origRemote,
                    uploadedSince>>

runDeploy(script) ==
  IF ~IsFtpSolution(config)
  THEN /\ last' = [NoResult EXCEPT !.op = "deploy", !.status = "manual"]
       /\ UNCHANGED <<config, acl, remote, local, raw, baseline, tracked,
                      manifest, origRemote, uploadedSince>>
  ELSE IF ~HasFtpCredentials(config)
  THEN /\ last' = ConfigurationError([NoResult EXCEPT !.op = "deploy", !.status = "config"])
       /\ UNCHANGED <<config, acl, remote, local, raw, baseline, tracked,
                      manifest, origRemote, uploadedSince>>
  ELSE LET changedFiles == detectChangedFiles(local, manifest)
           uploadFiles == MakeUploads(changedFiles, local)
           base == [NoResult EXCEPT !.op = "deploy", !.trackedRead = tracked]
       IN IF changedFiles = {}
          THEN /\ last' = [base EXCEPT !.status = "ok"]
               /\ UNCHANGED <<config, acl, remote, local, raw, baseline, tracked,
                              manifest, origRemote, uploadedSince>>
          ELSE LET up == uploadDeltaFiles(remote, uploadFiles, script)
                   called == [base EXCEPT !.upCalled = TRUE,
                                !.upArgs = SortPaths(changedFiles)]
               IN /\ remote' = up.remote
                  /\ uploadedSince' = NextUploadedSince(uploadedSince,
                        StoredPaths(uploadFiles, up.stored), {}, BaselineSet(baseline))
                  /\ IF up.status = "raise"
                     THEN /\ last' = RaiseToCaller(called)
                          /\ UNCHANGED manifest
                     ELSE /\ manifest' = toDeltaManifest(local)
                          /\ last' = [called EXCEPT !.status = "ok",
                                        !.uploadedFiles = SortPaths(changedFiles),
                                        !.uploadedCount = up.uploadedCount]
                  /\ UNCHANGED <<config, acl, local, raw, baseline, tracked, origRemote>>

\* --------------------------------------------------------------- Restore
\* variant: only the existence of the baseline file is checked
baselineUsable_ExistsOnly(b) == b.exists

\* the baseline check of runRestoreInitial
baselineUsable(b) == b.exists /\ b.files # {}

\* copy every requested path that is a regular file of the mirror
restoreBaselineFilesToLocal(loc, rawTree, baselineFiles) ==
  [f \in Files |->
     IF \E p \in baselineFiles :
          IsFileIn(rawTree, p) /\ isPathInsideLocal(p) /\ Resolve(p) = f
     THEN rawTree[f] ELSE loc[f]]

\* local files that are not Baseline paths are removed
removableLocals(loc, baselineFiles) ==
  { f \in SnapshotPaths(loc) : f \notin baselineFiles }

\* variant: local files outside the Baseline are not removed
replaceLocalWithRawBaseline_KeepExtra(loc, rawTree, baselineFiles) ==
  restoreBaselineFilesToLocal(loc, rawTree, baselineFiles)

replaceLocalWithRawBaseline(loc, rawTree, baselineFiles) ==
  LET removable == { f \in removableLocals(loc, baselineFiles) : isPathInsideLocal(f) }
      cleared == [f \in Files |-> IF f \in removable THEN 0 ELSE loc[f]]
  IN restoreBaselineFilesToLocal(cleared, rawTree, baselineFiles)

\* variant: the filter keeps the Baseline paths instead of dropping them
restoreDeletable_Inverted(trackedFiles, baselineSet) ==
  { p \in trackedFiles : p \in baselineSet }

\* tracked-new paths that Restore deletes on the server
restoreDeletable(trackedFiles, baselineSet) ==
  { p \in trackedFiles : p \notin baselineSet }

\* runRestoreInitial with the transport faults drawn from the given sets
runRestoreInitialWith(UpScripts, DelScripts) ==
  LET b == readInitialBaseline(baseline)
      base == [NoResult EXCEPT !.op = "restore", !.trackedRead = tracked]
  IN IF ~IsFtpSolution(config) \/ ~HasFtpCredentials(config)
     THEN /\ last' = ConfigurationError([base EXCEPT !.status = "config"])
          /\ UNCHANGED <<config, acl, remote, local, raw, baseline, tracked,
                         manifest, origRemote, uploadedSince>>
     ELSE IF ~baselineUsable(b)
     THEN /\ last' = ConfigurationError([base EXCEPT !.status = "nobaseline"])
          /\ UNCHANGED <<config, acl, remote, local, raw, baseline, tracked,
                         manifest, origRemote, uploadedSince>>
     ELSE
       LET baselineSet == b.files
           local1 == replaceLocalWithRawBaseline(local, raw, b.files)
           uploadPaths == { p \in b.files : IsFileIn(raw, p) }
           uploadFiles == MakeUploads(uploadPaths, raw)
           called == [base EXCEPT !.upCalled = TRUE, !.upArgs = SortPaths(uploadPaths),
                        !.localRemoved = RemovedBy(local, local1),
                        !.localCreated = CreatedBy(local, local1)]
           deletable == restoreDeletable(tracked, baselineSet)
           delList == SortPaths(deletable)
       IN /\ local' = local1
          /\ UNCHANGED <<config, acl, raw, baseline, manifest, origRemote>>
          /\ \E us \in UpScripts :
               LET up == uploadDeltaFiles(remote, uploadFiles, us)
               IN IF up.status = "raise"
                  THEN /\ remote' = up.remote
                       /\ last' = RaiseToCaller(called)
                       /\ uploadedSince' = NextUploadedSince(uploadedSince,
                             StoredPaths(uploadFiles, up.stored), {}, baselineSet)
                       /\ UNCHANGED tracked
                  ELSE \E ds \in (IF delList = <<>> THEN {<<>>} ELSE DelScripts) :
                    LET del == IF delList = <<>>
                               THEN [status |-> "ok", remote |-> up.remote,
                                     deletedCount |-> 0, attempts |-> 0, removed |-> {}]
                               ELSE deleteRemoteFiles(up.remote, delList, ds, acl)
                        called2 == [called EXCEPT !.delCalled = (delList # <<>>),
                                      !.delArgs = delList, !.removed = del.removed]
                    IN /\ remote' = del.remote
                       /\ uploadedSince' = NextUploadedSince(uploadedSince,
                             StoredPaths(uploadFiles, up.stored), del.removed, baselineSet)
                       /\ IF del.status = "raise"
                          THEN /\ last' = RaiseToCaller(called2)
                               /\ UNCHANGED tracked
                          ELSE /\ tracked' = writeSyncRuleState({})
                               /\ last' = [called2 EXCEPT !.status = "ok",
                                             !.uploadedCount = up.uploadedCount,
                                             !.deletedCount = del.deletedCount]

runRestoreInitial == runRestoreInitialWith(Scripts, Scripts)

\* -------------------------------------------------------- specification
Batches ==
  { b \in [up : SUBSET Spellings, del : SUBSET Spellings] :
      Cardinality(b.up) + Cardinality(b.del) <= MaxBatch }

\* one more step of the behaviour, while the budget lasts
Tick ==
  steps < MaxSteps /\ steps' = steps + 1 /\ UNCHANGED <<ftp, diff, ui, calls, walk>>

Next ==
  \/ Tick /\ \E f \in Files, v \in 0..MaxContent : LocalEdit(f, v)
  \/ Tick /\ \E s \in Scripts : runInitialSync(s)
  \/ Tick /\ \E b \in Batches : autoUploadChangedFiles(b.up, b.del)
  \/ Tick /\ \E s \in Scripts : runDeploy(s)
  \/ Tick /\ runRestoreInitial

Spec == Init /\ [][Next]_vars

\* ------------------------------------------------ paths in other spellings
\* the engine driven with batches whose paths are spelled in every way of
\* WideSpellings
WideBatches ==
  { b \in [up : SUBSET WideSpellings, del : SUBSET WideSpellings] :
      Cardinality(b.up) + Cardinality(b.del) <= MaxBatch }

SpellingNext ==
  \/ Tick /\ \E f \in Files, v \in 0..MaxContent : LocalEdit(f, v)
  \/ Tick /\ \E s \in Scripts : runInitialSync(s)
  \/ Tick /\ \E b \in WideBatches : autoUploadChangedFiles(b.up, b.del)
  \/ Tick /\ runRestoreInitial

\* one project of an FTP solution with complete credentials on a server
\* without permission restrictions
SpellingInit ==
  /\ Init
  /\ IsFtpSolution(config) /\ HasFtpCredentials(config)
  /\ acl.noRead = {} /\ acl.noDelete = {}

SpellingSpec == SpellingInit /\ [][SpellingNext]_vars

\* ------------------------------------------------- Restore after Restore
\* the project right after a fault-free InitialSync
RetryInit ==
  /\ ftp = FtpIdle
  /\ diff = DiffIdle
  /\ ui = UiIdle
  /\ calls = <<>>
  /\ walk = [pc |-> "idle"]
  /\ config = [solutionType |-> "cafe24", ftpComplete |-> TRUE]
  /\ acl = [noRead |-> {}, noDelete |-> {}]
  /\ remote \in InitialRemotes
  /\ local = remote
  /\ raw = remote
  /\ baseline = [exists |-> TRUE, files |-> SnapshotPaths(remote)]
  /\ tracked = {}
  /\ manifest = NoFiles
  /\ last = NoResult
  /\ origRemote = SnapshotPaths(remote)
  /\ uploadedSince = {}
  /\ steps = 0

\* the connection of a remote delete can also break between a command and
\* its reply
RetryNext ==
  \/ Tick /\ \E f \in Files, v \in 0..MaxContent : LocalEdit(f, v)
  \/ Tick /\ \E b \in Batches : autoUploadChangedFiles(b.up, b.del)
  \/ Tick /\ runRestoreInitialWith(Scripts, Scripts \cup { <<ReplyLost(1)>> })

RestoreRetrySpec == RetryInit /\ [][RetryNext]_vars

\* ------------------------------------------- two Auto-Uploads at the same time
\* The main process starts an autoUploadChangedFiles call for every saved
\* file and takes no lock; each call runs up to its next await, then any
\* other call may run.
CallIds == {1, 2}

NewCall(b) ==
  [pc |-> "invoke", up |-> b.up, del |-> b.del, trackedSet |-> {},
   baselineSet |-> {}, upsertSet |-> {}, deletable |-> {}, uploadPaths |-> {}]

\* a project of an FTP solution, synced or never synced, with tracked-new
\* files on the server, at the moment two calls are started, each for one
\* saved or one removed path
InterleaveInit ==
  /\ ftp = FtpIdle
  /\ diff = DiffIdle
  /\ ui = UiIdle
  /\ walk = [pc |-> "idle"]
  /\ config = [solutionType |-> "cafe24", ftpComplete |-> TRUE]
  /\ acl = [noRead |-> {}, noDelete |-> {}]
  /\ \E r \in InitialRemotes :
       /\ baseline \in { NoBaseline, [exists |-> TRUE, files |-> SnapshotPaths(r)] }
       /\ raw = IF baseline.exists THEN r ELSE NoFiles
       /\ tracked \in SUBSET (Files \ baseline.files)
       /\ remote = [f \in Files |-> IF f \in tracked THEN 1 ELSE r[f]]
       /\ origRemote = baseline.files
  /\ local \in [Files -> 0..1]
  /\ manifest = NoFiles
  /\ last = NoResult
  /\ uploadedSince = tracked
  /\ steps = 0
  /\ calls \in [CallIds ->
        { NewCall(b) :
            b \in { x \in Batches : Cardinality(x.up) + Cardinality(x.del) = 1 } }]

InterleaveRest == <<config, acl, raw, baseline, manifest, last, origRemote,
                    steps, ftp, diff, ui, walk>>

\* the call up to the end of the deleted-path loop: it reads the baseline
\* and the sync-rule state and copies protected files back
ReadState(c) ==
  LET me == calls[c]
      normalizedUpserts == NormalizeList(me.up)
      normalizedDeleted == NormalizeList(me.del)
      baselineSet == BaselineSet(readInitialBaseline(baseline))
      restored == protectedRestored(normalizedDeleted, baselineSet, raw)
  IN /\ me.pc = "invoke"
     /\ local' = CopyProtected(local, raw, restored)
     /\ calls' = [calls EXCEPT ![c] =
          [me EXCEPT !.pc = "upload",
                     !.trackedSet = tracked,
                     !.baselineSet = baselineSet,
                     !.upsertSet = normalizedUpserts \cup restored,
                     !.deletable = deletableOnServer(normalizedDeleted, baselineSet, tracked)]]
     /\ UNCHANGED <<remote, tracked, uploadedSince>>
     /\ UNCHANGED InterleaveRest

\* the upload list is built and uploadDeltaFiles is awaited
UploadStep(c) ==
  LET me == calls[c]
      uploadPaths == UploadablePaths(me.upsertSet, local)
      uploadFiles == MakeUploads(uploadPaths, local)
      up == uploadDeltaFiles(remote, uploadFiles, <<>>)
  IN /\ me.pc = "upload"
     /\ remote' = up.remote
     /\ uploadedSince' = NextUploadedSince(uploadedSince, uploadPaths, {}, me.baselineSet)
     /\ calls' = [calls EXCEPT ![c] =
          [me EXCEPT !.pc = "delete", !.uploadPaths = uploadPaths]]
     /\ UNCHANGED <<local, tracked>>
     /\ UNCHANGED InterleaveRest

\* deleteRemoteFiles is awaited; a raise ends the call in its catch block
DeleteStep(c) ==
  LET me == calls[c]
      delList == SortPaths(me.deletable)
      del == IF delList = <<>>
             THEN [status |-> "ok", remote |-> remote, removed |-> {}]
             ELSE deleteRemoteFiles(remote, delList, <<>>, acl)
  IN /\ me.pc = "delete"
     /\ remote' = del.remote
     /\ uploadedSince' = NextUploadedSince(uploadedSince, {}, del.removed, me.baselineSet)
     /\ calls' = [calls EXCEPT ![c] =
          [me EXCEPT !.pc = IF del.status = "raise" THEN "failed" ELSE "write"]]
     /\ UNCHANGED <<local, tracked>>
     /\ UNCHANGED InterleaveRest

\* the set read at the start, updated in memory, is written back
WriteState(c) ==
  LET me == calls[c]
  IN /\ me.pc = "write"
     /\ tracked' = NextTracked(me.trackedSet, me.uploadPaths, me.deletable, me.baselineSet)
     /\ calls' = [calls EXCEPT ![c] = [me EXCEPT !.pc = "done"]]
     /\ UNCHANGED <<remote, local, uploadedSince>>
     /\ UNCHANGED InterleaveRest

InterleaveNext ==
  \E c \in CallIds :
    \/ ReadState(c)
    \/ UploadStep(c)
    \/ DeleteStep(c)
    \/ WriteState(c)

InterleaveSpec == InterleaveInit /\ [][InterleaveNext]_vars

\* ------------------------------------------------ walking a working copy
\* names of the entries of directory dir (fs.readdir)
DirEntries(tree, dir) ==
  { f[Len(dir) + 1] :
      f \in { g \in DOMAIN tree : /\ tree[g] # 0
                                  /\ Len(g) > Len(dir)
                                  /\ SubSeq(g, 1, Len(dir)) = dir } }

\* walk(currentPath): a directory entry is walked, a file entry is recorded
RECURSIVE WalkDirectory(_, _)
WalkDirectory(tree, dir) ==
  UNION { LET fullPath == Append(dir, name)
          IN IF fullPath \in DOMAIN tree /\ tree[fullPath] # 0
             THEN {fullPath}
             ELSE WalkDirectory(tree, fullPath)
          : name \in DirEntries(tree, dir) }

\* fingerprints of the files found, by relative path
collectLocalFileSnapshotMap(tree) ==
  [relativePath \in WalkDirectory(tree, <<>>) |-> tree[relativePath]]

\* a working copy, a manifest and a Baseline at the moment the working copy
\* is walked
WalkInit ==
  /\ ftp = FtpIdle
  /\ diff = DiffIdle
  /\ ui = UiIdle
  /\ calls = <<>>
  /\ config = [solutionType |-> "cafe24", ftpComplete |-> TRUE]
  /\ acl = [noRead |-> {}, noDelete |-> {}]
  /\ remote = NoFiles
  /\ local = NoFiles
  /\ raw = NoFiles
  /\ baseline = NoBaseline
  /\ tracked = {}
  /\ manifest = NoFiles
  /\ last = NoResult
  /\ origRemote = {}
  /\ uploadedSince = {}
  /\ steps = 0
  /\ \E t \in [WalkFiles -> 0..1], m \in [WalkFiles -> 0..1], b \in SUBSET WalkFiles :
       walk = [pc |-> "call", tree |-> t, manifest |-> m, baselineFiles |-> b]

\* the three users of a walk: the Baseline captureInitialRawSnapshot writes,
\* the files deployFtpDelta is to upload, the files
\* replaceLocalWithRawBaseline removes
ApplyWalk ==
  LET snapshot == collectLocalFileSnapshotMap(walk.tree)
  IN /\ walk.pc = "call"
     /\ walk' = [pc |-> "done", tree |-> walk.tree, manifest |-> walk.manifest,
                 baselineFiles |-> walk.baselineFiles,
                 captured |-> captureInitialRawSnapshot(snapshot).baseline.files,
                 changedFiles |-> detectChangedFiles(snapshot, walk.manifest),
                 removed |-> { f \in removableLocals(snapshot, walk.baselineFiles) :
                                 isPathInsideLocal(f) }]
     /\ UNCHANGED <<config, acl, remote, local, raw, baseline, tracked, manifest,
                    last, origRemote, uploadedSince, steps, ftp, diff, ui, calls>>

WalkSpec == WalkInit /\ [][ApplyWalk]_vars

\* ------------------------------------------------- a mirror that loses files
\* a file of the raw mirror disappears outside the engine (the stat of the
\* raw copy in the deleted-path loop answers null)
RawLoss(f) ==
  /\ raw[f] # 0
  /\ raw' = [raw EXCEPT ![f] = 0]
  /\ last' = [NoResult EXCEPT !.op = "rawloss"]
  /\ UNCHANGED <<config, acl, remote, local, baseline, tracked, manifest,
                 origRemote, uploadedSince>>

MirrorLossNext ==
  \/ Next
  \/ Tick /\ \E f \in Files : RawLoss(f)

MirrorLossSpec == Init /\ [][MirrorLossNext]_vars

\* ------------------------------------------------ diffLocalFileSnapshotMap
\* values of mtimeMs and of size
MaxStamp == 2

\* LocalFileSnapshot
LocalFileSnapshots == [mtimeMs : 1..MaxStamp, size : 1..MaxStamp]

\* Record<string, LocalFileSnapshot>: the keys are the files of a tree
SnapshotMaps == UNION { [S -> LocalFileSnapshots] : S \in SUBSET Files }

\* variant: the size of a file is not compared
diffLocalFileSnapshotMap_MtimeOnly(before, after) ==
  [upserted |-> SortPaths({ p \in DOMAIN after :
                   p \notin DOMAIN before \/ before[p].mtimeMs # after[p].mtimeMs }),
   deleted |-> SortPaths({ p \in DOMAIN before : p \notin DOMAIN after })]

diffLocalFileSnapshotMap(before, after) ==
  LET upserted == { relativePath \in DOMAIN after :
                      IF relativePath \notin DOMAIN before
                      THEN TRUE
                      ELSE \/ before[relativePath].mtimeMs # after[relativePath].mtimeMs
                           \/ before[relativePath].size # after[relativePath].size }
      deleted == { relativePath \in DOMAIN before : relativePath \notin DOMAIN after }
  IN [upserted |-> SortPaths(upserted), deleted |-> SortPaths(deleted)]

\* a caller holds two snapshot maps
DiffInit ==
  /\ config = [solutionType |-> "cafe24", ftpComplete |-> TRUE]
  /\ acl \in { a \in Acls : a.noRead = {} /\ a.noDelete = {} }
  /\ remote = NoFiles
  /\ local = NoFiles
  /\ raw = NoFiles
  /\ baseline = NoBaseline
  /\ tracked = {}
  /\ manifest = NoFiles
  /\ last = NoResult
  /\ origRemote = {}
  /\ uploadedSince = {}
  /\ steps = 0
  /\ ftp = FtpIdle
  /\ ui = UiIdle
  /\ calls = <<>>
  /\ walk = [pc |-> "idle"]
  /\ \E b \in SnapshotMaps, a \in SnapshotMaps :
       diff = [pc |-> "call", before |-> b, after |-> a]

\* the call returns
ApplyDiff ==
  /\ diff.pc = "call"
  /\ diff' = [pc |-> "done", before |-> diff.before, after |-> diff.after,
              out |-> diffLocalFileSnapshotMap(diff.before, diff.after)]
  /\ UNCHANGED <<config, acl, remote, local, raw, baseline, tracked, manifest,
                 last, origRemote, uploadedSince, steps, ftp, ui, calls, walk>>

DiffNext == ApplyDiff

DiffSpec == DiffInit /\ [][DiffNext]_vars

\* --------------------------------------------------- the engine's callers
\* The dashboard window and the workspace window of one project, each with
\* its own busy flag, and the IPC calls of the main process they await.
\* saves a workspace window can have in flight
MaxInFlight == 3

CallerInit ==
  /\ config = [solutionType |-> "cafe24", ftpComplete |-> TRUE]
  /\ acl \in { a \in Acls : a.noRead = {} /\ a.noDelete = {} }
  /\ remote = NoFiles
  /\ local = NoFiles
  /\ raw = NoFiles
  /\ baseline = NoBaseline
  /\ tracked = {}
  /\ manifest = NoFiles
  /\ last = NoResult
  /\ origRemote = {}
  /\ uploadedSince = {}
  /\ steps = 0
  /\ ftp = FtpIdle
  /\ diff = DiffIdle
  /\ calls = <<>>
  /\ walk = [pc |-> "idle"]
  /\ ui = [pc |-> "run",
           dashBusy |-> FALSE,   \* App.tsx: busy
           dashCall |-> "none",  \* the engine call handleProjectAction awaits
           dashRefresh |-> FALSE,\* handleProjectAction awaits refreshProjects
           wsBusy |-> FALSE,     \* workspace window: busy
           isDirty |-> FALSE,    \* the active file has unsaved changes
           writing |-> 0,        \* workspace:writeFile calls before autoUploadSavedFile
           uploading |-> 0]      \* workspace:writeFile calls inside autoUploadSavedFile

CallerRest == <<config, acl, remote, local, raw, baseline, tracked, manifest,
                last, origRemote, uploadedSince, steps, ftp, diff, calls, walk>>

\* a dashboard button (deploy, sync, restore; disabled while busy) is clicked:
\* handleProjectAction sets busy and invokes the IPC handler
handleProjectAction(action) ==
  /\ ui.pc = "run" /\ ~ui.dashBusy
  /\ ui' = [ui EXCEPT !.dashBusy = TRUE, !.dashCall = action]
  /\ UNCHANGED CallerRest

\* the engine call of the dashboard returns or throws; the project list is
\* refreshed next
DashboardCallSettles ==
  /\ ui.pc = "run" /\ ui.dashCall # "none"
  /\ ui' = [ui EXCEPT !.dashCall = "none", !.dashRefresh = TRUE]
  /\ UNCHANGED CallerRest

\* finally { setBusy(false) }
DashboardFinally ==
  /\ ui.pc = "run" /\ ui.dashRefresh
  /\ ui' = [ui EXCEPT !.dashRefresh = FALSE, !.dashBusy = FALSE]
  /\ UNCHANGED CallerRest

\* the user types in the editor
EditBuffer ==
  /\ ui.pc = "run" /\ ~ui.isDirty
  /\ ui' = [ui EXCEPT !.isDirty = TRUE]
  /\ UNCHANGED CallerRest

\* saveFile: withBusy sets busy and invokes workspace:writeFile
saveFile ==
  /\ ui.writing + ui.uploading < MaxInFlight
  /\ ui' = [ui EXCEPT !.wsBusy = TRUE, !.writing = @ + 1]
  /\ UNCHANGED CallerRest

\* the save button, disabled={busy || !isDirty}
SaveButton == ui.pc = "run" /\ ~ui.wsBusy /\ ui.isDirty /\ saveFile

\* the keydown handler calls saveFile on Ctrl/Cmd+S whatever busy and isDirty are
SaveShortcut == ui.pc = "run" /\ saveFile

\* the workspace:writeFile handler has written the file and calls
\* autoUploadSavedFile
WriteFileHandlerUploads ==
  /\ ui.pc = "run" /\ ui.writing > 0
  /\ ui' = [ui EXCEPT !.writing = @ - 1, !.uploading = @ + 1]
  /\ UNCHANGED CallerRest

\* the handler returns; saveFile clears the dirty flag and withBusy's finally
\* clears busy
SaveSettles ==
  /\ ui.pc = "run" /\ ui.uploading > 0
  /\ ui' = [ui EXCEPT !.uploading = @ - 1, !.isDirty = FALSE, !.wsBusy = FALSE]
  /\ UNCHANGED CallerRest

CallerNext ==
  \/ \E action \in {"sync", "deploy", "restore"} : handleProjectAction(action)
  \/ DashboardCallSettles
  \/ DashboardFinally
  \/ EditBuffer
  \/ SaveButton
  \/ SaveShortcut
  \/ WriteFileHandlerUploads
  \/ SaveSettles

CallerSpec == CallerInit /\ [][CallerNext]_vars

\* engine operations of the project that have started and not yet settled
EngineOpsInFlight ==
  (IF ui.dashCall # "none" THEN 1 ELSE 0) + ui.uploading

\* -------------------------------------- transport, statement by statement
\* One call of downloadInitialSkin, uploadDeltaFiles or deleteRemoteFiles is
\* followed through its retry loop: new Client, the statements of the try
\* block, catch, finally.

\* variant: the destination directory is emptied before the remote path is listed
TryBlock_ClearFirst(op) ==
  CASE op = "download" -> <<"access", "emptyDirectory", "assertRemotePathExists", "items">>
    [] op = "upload" -> <<"access", "ensureDir", "items">>
    [] op = "delete" -> <<"access", "items">>

\* the statements of the try block, the per-item loop being "items"
TryBlock(op) ==
  CASE op = "download" -> <<"access", "assertRemotePathExists", "emptyDirectory", "items">>
    [] op = "upload" -> <<"access", "ensureDir", "items">>
    [] op = "delete" -> <<"access", "items">>

StatementAfter(op, st) ==
  LET b == TryBlock(op)
      i == CHOOSE k \in 1..Len(b) : b[k] = st
  IN b[i + 1]

\* a fault of one attempt with its message; at = 0 hits client.access
\* (stage "access") or the statement before the items (stage "prologue")
FtpFault(k, msg, stage) == [at |-> k, kind |-> ErrorKind(msg), msg |-> msg, stage |-> stage]

TransientFaults ==
  { FtpFault(0, MsgTimedOut, "access"), FtpFault(0, MsgTimedOut, "prologue"),
    FtpFault(1, MsgDataConnection, "item"), FtpFault(2, MsgDataConnection, "item") }

FatalFaults ==
  { FtpFault(0, MsgLoginIncorrect, "access"), FtpFault(0, MsgNoSuchFile, "prologue"),
    FtpFault(1, MsgNoSuchFile, "item"), FtpFault(2, MsgNoSuchFile, "item") }

\* at most one fault per attempt; a fault that is not transient ends the call,
\* so only the last one of a script can be of that kind
FtpScripts ==
  { sc \in UNION { [1..n -> TransientFaults \cup FatalFaults] : n \in 0..MAX_RETRY } :
      \A i \in 1..(Len(sc) - 1) : sc[i] \in TransientFaults }

FtpCall(op, files, paths, script, rem, loc) ==
  [op |-> op, files |-> files, paths |-> paths, script |-> script,
   remote0 |-> rem, local0 |-> loc,
   attempt |-> 1, pc |-> "new", pos |-> 1, count |-> 0,
   open |-> 0, opened |-> 0,
   error |-> [msg |-> <<>>, pos |-> 0], lastError |-> <<>>, errors |-> <<>>,
   pending |-> "none", result |-> "none", raised |-> <<>>,
   listedIn |-> 0, clearedIn |-> 0]

FtpTrees == [Files -> {0, 1}]

\* a working copy that is empty, or holds a file from earlier work
FtpLocals == { NoFiles, [f \in Files |-> IF f = PD THEN MaxContent ELSE 0] }

\* non-empty lists of paths, in the order the engine builds them
FtpPathLists == { SortPaths(S) : S \in (SUBSET Paths) \ {{}} }

FtpInit ==
  /\ config = [solutionType |-> "cafe24", ftpComplete |-> TRUE]
  /\ raw = NoFiles
  /\ baseline = NoBaseline
  /\ tracked = {}
  /\ manifest = NoFiles
  /\ last = NoResult
  /\ origRemote = {}
  /\ uploadedSince = {}
  /\ steps = 0
  /\ diff = DiffIdle
  /\ ui = UiIdle
  /\ calls = <<>>
  /\ walk = [pc |-> "idle"]
  /\ remote \in FtpTrees
  /\ \/ /\ acl \in { a \in Acls : a.noDelete = {} }
        /\ local \in FtpLocals
        /\ \E sc \in FtpScripts : ftp = FtpCall("download", <<>>, <<>>, sc, remote, local)
     \/ /\ acl \in { a \in Acls : a.noRead = {} /\ a.noDelete = {} }
        /\ local = NoFiles
        /\ \E sc \in FtpScripts, l \in FtpPathLists :
             ftp = FtpCall("upload", MakeUploads(SeqToSet(l), [f \in Files |-> 1]),
                           <<>>, sc, remote, local)
     \/ /\ acl \in { a \in Acls : a.noRead = {} }
        /\ local = NoFiles
        /\ \E sc \in { x \in FtpScripts : \A i \in 1..Len(x) : x[i].stage # "prologue" },
              l \in FtpPathLists :
             ftp = FtpCall("delete", <<>>, l, sc, remote, local)

Rest == <<config, acl, raw, baseline, tracked, manifest, last, origRemote,
          uploadedSince, steps, diff, ui, calls, walk>>

CurrentFault == FaultOf(ftp.script, ftp.attempt)

Raise(msg) == [ftp EXCEPT !.error = [msg |-> msg, pos |-> ftp.pos], !.pc = "catch"]

\* on to the statement after st; the item loop starts at its first item
Advance(st) ==
  LET nx == StatementAfter(ftp.op, st)
  IN [ftp EXCEPT !.pc = nx, !.pos = IF nx = "items" THEN 1 ELSE 0]

\* the entries client.list returns for the remote path
RemoteEntries == SortPaths(SnapshotPaths(remote))

\* for (attempt = 1; attempt <= MAX_RETRY; ...) { const client = new Client(...)
NewClient ==
  /\ ftp.op # "none" /\ ftp.pc = "new"
  /\ ftp' = IF ftp.attempt <= MAX_RETRY
            THEN [ftp EXCEPT !.open = @ + 1, !.opened = @ + 1, !.pc = "access",
                             !.pos = 0, !.count = 0]
            ELSE [ftp EXCEPT !.pc = "done", !.result = "raise", !.raised = ftp.lastError]
  /\ UNCHANGED <<remote, local, Rest>>

\* await client.access(...)
Access ==
  /\ ftp.op # "none" /\ ftp.pc = "access"
  /\ ftp' = IF CurrentFault.at = 0 /\ CurrentFault.stage = "access"
            THEN Raise(CurrentFault.msg)
            ELSE Advance("access")
  /\ UNCHANGED <<remote, local, Rest>>

\* await assertRemotePathExists(client, remotePath)
AssertRemotePathExists ==
  /\ ftp.op # "none" /\ ftp.pc = "assertRemotePathExists"
  /\ ftp' = IF CurrentFault.at = 0
            THEN Raise(CurrentFault.msg)
            ELSE [Advance("assertRemotePathExists") EXCEPT !.listedIn = ftp.attempt]
  /\ UNCHANGED <<remote, local, Rest>>

\* await client.ensureDir(remotePath); await client.cd('/')
EnsureRemoteDir ==
  /\ ftp.op # "none" /\ ftp.pc = "ensureDir"
  /\ ftp' = IF CurrentFault.at = 0
            THEN Raise(CurrentFault.msg)
            ELSE Advance("ensureDir")
  /\ UNCHANGED <<remote, local, Rest>>

\* await emptyDirectory(input.localPath)
EmptyDirectory ==
  /\ ftp.op # "none" /\ ftp.pc = "emptyDirectory"
  /\ local' = NoFiles
  /\ ftp' = [Advance("emptyDirectory") EXCEPT !.clearedIn = ftp.attempt]
  /\ UNCHANGED <<remote, Rest>>

\* number of items of the call
ItemCount ==
  CASE ftp.op = "download" -> Len(RemoteEntries)
    [] ftp.op = "upload" -> Len(ftp.files)
    [] ftp.op = "delete" -> Len(ftp.paths)

\* variant: the connection is not closed
clientClose_Leak(open) == open

\* client.close()
clientClose(open) == open - 1

\* one entry of downloadDirectoryRecursive: client.downloadTo, a
\* permission-denied error skips the entry
DownloadEntry ==
  /\ ftp.op = "download" /\ ftp.pc = "items" /\ ftp.pos <= ItemCount
  /\ LET f == RemoteEntries[ftp.pos]
         err == IF CurrentFault.at = ftp.pos THEN CurrentFault.msg
                ELSE IF f \in acl.noRead THEN MsgPermissionDenied
                ELSE <<>>
     IN IF err = <<>>
        THEN /\ local' = [local EXCEPT ![f] = remote[f]]
             /\ ftp' = [ftp EXCEPT !.pos = @ + 1]
        ELSE IF isPermissionDeniedFtpError(ErrorKind(err))
        THEN /\ ftp' = [ftp EXCEPT !.pos = @ + 1]
             /\ UNCHANGED local
        ELSE /\ ftp' = Raise(err)
             /\ UNCHANGED local
  /\ UNCHANGED <<remote, Rest>>

\* one file of uploadDeltaFiles: ensureDir, cd, uploadFrom
UploadFile ==
  /\ ftp.op = "upload" /\ ftp.pc = "items" /\ ftp.pos <= ItemCount
  /\ LET file == ftp.files[ftp.pos]
     IN IF CurrentFault.at = ftp.pos
        THEN /\ ftp' = Raise(CurrentFault.msg)
             /\ UNCHANGED remote
        ELSE /\ remote' = [remote EXCEPT ![RemoteFile(file.relativePath)] = file.content]
             /\ ftp' = [ftp EXCEPT !.pos = @ + 1, !.count = @ + 1]
  /\ UNCHANGED <<local, Rest>>

\* one path of deleteRemoteFiles: client.remove, a permission-denied error
\* skips the path
RemoveFile ==
  /\ ftp.op = "delete" /\ ftp.pc = "items" /\ ftp.pos <= ItemCount
  /\ LET f == RemoteFile(ftp.paths[ftp.pos])
         err == IF CurrentFault.at = ftp.pos THEN CurrentFault.msg
                ELSE IF f \in acl.noDelete THEN MsgPermissionDenied
                ELSE IF remote[f] = 0 THEN MsgNoSuchFile
                ELSE <<>>
     IN IF err = <<>>
        THEN /\ remote' = [remote EXCEPT ![f] = 0]
             /\ ftp' = [ftp EXCEPT !.pos = @ + 1, !.count = @ + 1]
        ELSE IF isPermissionDeniedFtpError(ErrorKind(err))
        THEN /\ ftp' = [ftp EXCEPT !.pos = @ + 1]
             /\ UNCHANGED remote
        ELSE /\ ftp' = Raise(err)
             /\ UNCHANGED remote
  /\ UNCHANGED <<local, Rest>>

\* return { ... } at the end of the try block
ReturnResult ==
  /\ ftp.op # "none" /\ ftp.pc = "items" /\ ftp.pos > ItemCount
  /\ ftp' = [ftp EXCEPT !.pending = "return", !.pc = "finally"]
  /\ UNCHANGED <<remote, local, Rest>>

\* catch (error): rethrow, or sleep and go round again
CatchError ==
  /\ ftp.op # "none" /\ ftp.pc = "catch"
  /\ ftp' = [ftp EXCEPT
       !.lastError = ftp.error.msg,
       !.errors = Append(@, ftp.error),
       !.pending = IF ~isRetryableFtpError(ErrorKind(ftp.error.msg))
                      \/ ftp.attempt = MAX_RETRY
                   THEN "throw" ELSE "continue",
       !.pc = "finally"]
  /\ UNCHANGED <<remote, local, Rest>>

\* finally { client.close() }, then the return, the throw or the next round
CloseClient ==
  /\ ftp.op # "none" /\ ftp.pc = "finally"
  /\ ftp' = CASE ftp.pending = "return" ->
                   [ftp EXCEPT !.open = clientClose(@), !.pc = "done", !.result = "ok"]
              [] ftp.pending = "throw" ->
                   [ftp EXCEPT !.open = clientClose(@), !.pc = "done", !.result = "raise",
                               !.raised = ftp.error.msg]
              [] ftp.pending = "continue" ->
                   [ftp EXCEPT !.open = clientClose(@), !.pc = "new", !.attempt = @ + 1,
                               !.pending = "none"]
  /\ UNCHANGED <<remote, local, Rest>>

FtpNext ==
  \/ NewClient
  \/ Access
  \/ AssertRemotePathExists
  \/ EnsureRemoteDir
  \/ EmptyDirectory
  \/ DownloadEntry
  \/ UploadFile
  \/ RemoveFile
  \/ ReturnResult
  \/ CatchError
  \/ CloseClient

FtpSpec == FtpInit /\ [][FtpNext]_vars

FtpDone == ftp.op # "none" /\ ftp.pc = "done"

\* the retry loops used by the engine operations give the result of the
\* statements above
TransportLoopsAgree ==
  FtpDone =>
    CASE ftp.op = "download" ->
           LET r == downloadInitialSkin(ftp.remote0, ftp.local0, ftp.script, acl)
           IN r.status = ftp.result /\ r.local = local /\ r.attempts = ftp.opened
      [] ftp.op = "upload" ->
           LET r == uploadDeltaFiles(ftp.remote0, ftp.files, ftp.script)
           IN r.status = ftp.result /\ r.remote = remote /\ r.attempts = ftp.opened
      [] ftp.op = "delete" ->
           LET r == deleteRemoteFiles(ftp.remote0, ftp.paths, ftp.script, acl)
           IN /\ r.status = ftp.result /\ r.remote = remote /\ r.attempts = ftp.opened
              /\ ftp.result = "ok" => r.deletedCount = ftp.count

\* ================================================================ claims
IsEngineOp == last.op \in {"sync", "auto", "deploy", "restore"}

FtpReady == IsFtpSolution(config) /\ config.ftpComplete

\* C1: no engine operation passes a path of Baseline.files to the remote
\* delete, whatever upserted/deleted paths Auto-Upload is given.
C1_NoBaselinePathDeleted ==
  IsEngineOp => \A i \in 1..Len(last.delArgs) : last.delArgs[i] \notin BaselineSet(baseline)

\* C1 witness: an Auto-Upload whose deleted paths held a Baseline path and
\* which did call the remote delete (for a tracked-new path).
C1_Witness ==
  /\ last.op = "auto" /\ last.delCalled
  /\ \E p \in last.deleted : p \in BaselineSet(baseline)

\* C2: a file that was on the server when Initial Sync listed it is never
\* removed from the server by an engine operation.
C2_OriginalNeverRemoved == last.removed \cap origRemote = {}

\* C3: Auto-Upload and Restore pass a path to the remote delete only if it
\* was in trackedNewServerFiles when read; a deleted path that is neither a
\* Baseline path nor tracked-new is not passed on and is listed in
\* manualDeleteSkippedFiles.
C3_OnlyTrackedDeleted ==
  last.op \in {"auto", "restore"} =>
    /\ \A p \in SeqToSet(last.delArgs) : p \in last.trackedRead
    /\ \A p \in last.deleted :
         (p \notin BaselineSet(baseline) /\ p \notin last.trackedRead) =>
           /\ p \notin SeqToSet(last.delArgs)
           /\ p \in SeqToSet(last.manualDeleteSkippedFiles)

\* C3 witness: one Auto-Upload deleted a tracked-new path remotely and
\* skipped an untracked one.
C3_Witness ==
  /\ last.op = "auto" /\ last.delCalled /\ last.removed # {}
  /\ last.manualDeleteSkippedFiles # <<>>

\* C4: trackedNewServerFiles and Baseline.files are disjoint in every state.
C4_TrackedDisjointFromBaseline == tracked \cap BaselineSet(baseline) = {}

\* C4 witness: a successful Auto-Upload stored a Baseline path and a new
\* path; the new path is tracked.
C4_Witness ==
  /\ last.op = "auto" /\ last.status = "ok" /\ tracked # {}
  /\ \E i \in 1..Len(last.uploadedFiles) : last.uploadedFiles[i] \in BaselineSet(baseline)

\* C5: once a Baseline exists, every non-baseline path the engine stored
\* remotely since the baseline and has not removed is tracked.
C5_UploadedAreTracked ==
  baseline.exists => \A p \in uploadedSince : p \in BaselineSet(baseline) \/ p \in tracked

\* C6: a successful Restore leaves the working copy with exactly the paths
\* of Baseline.files, each with the content of the raw mirror.
C6_RestoreRoundTrip ==
  (last.op = "restore" /\ last.status = "ok") =>
    /\ SnapshotPaths(local) = baseline.files
    /\ \A f \in baseline.files : local[f] = raw[f]

\* C6 witness: a successful Restore removed a file created after the sync
\* and recreated a Baseline file deleted after the sync.
C6_Witness ==
  /\ last.op = "restore" /\ last.status = "ok"
  /\ last.localRemoved # {} /\ last.localCreated # {}

\* C7: after a successful Restore every Baseline file is on the server with
\* the raw-mirror content and no non-baseline file the engine stored since
\* the baseline is left there.
C7_RemoteBackAtBaseline ==
  (last.op = "restore" /\ last.status = "ok") =>
    /\ \A f \in baseline.files : remote[RemoteFile(f)] = raw[f]
    /\ \A p \in uploadedSince : p \in BaselineSet(baseline)

\* C8: a successful Restore passes exactly trackedNewServerFiles minus
\* Baseline.files to the remote delete and leaves the tracked set empty.
C8_RestoreDeletesTrackedNew ==
  (last.op = "restore" /\ last.status = "ok") =>
    /\ SeqToSet(last.delArgs) = last.trackedRead \ baseline.files
    /\ last.delCalled = (last.delArgs # <<>>)
    /\ tracked = {}

\* C8 witness: Restore with tracked = [d.txt] and a Baseline holding a.txt
\* removed d.txt from the server.
C8_Witness ==
  /\ last.op = "restore" /\ last.status = "ok"
  /\ last.trackedRead = {PD} /\ PA \in baseline.files
  /\ last.delArgs = <<PD>> /\ last.removed = {PD}

\* C9 as claimed: Restore on an FTP project with complete credentials stops
\* at the baseline check exactly when no Baseline was recorded.
C9_FailsIffNoBaselineRecorded ==
  (last.op = "restore" /\ FtpReady) => ((last.status = "nobaseline") <=> ~baseline.exists)

\* C9 amended: Restore stops at the baseline check exactly when no Baseline
\* was recorded or the recorded Baseline lists no file; when it stops there,
\* the trees and the metadata are unchanged.
C9_FailsIffNoBaselineFiles ==
  [][ (last'.op = "restore" /\ FtpReady) =>
        /\ (last'.status = "nobaseline") <=> (~baseline.exists \/ baseline.files = {})
        /\ (last'.status = "nobaseline") =>
             UNCHANGED <<remote, local, raw, baseline, tracked, manifest>> ]_vars

\* C9 witness: Restore stopped at the baseline check of a project whose
\* Initial Sync succeeded with zero files.
C9_Witness ==
  /\ last.op = "restore" /\ last.status = "nobaseline"
  /\ baseline.exists /\ baseline.files = {}

\* C10: a deleted Baseline path with a regular-file copy in the raw mirror is
\* back in the working copy with the mirror's content at return, is listed in
\* restoredProtectedFiles, is handed to the upload and, when the transport
\* succeeds, is among the uploaded files.
C10_ProtectedRestoredAndUploaded ==
  last.op = "auto" =>
    \A p \in last.deleted :
      (p \in BaselineSet(baseline) /\ IsFileIn(raw, p)) =>
        /\ local[Resolve(p)] = raw[Resolve(p)]
        /\ p \in SeqToSet(last.restoredProtectedFiles)
        /\ FtpReady => p \in SeqToSet(last.upArgs)
        /\ last.status = "ok" =>
             (p \in SeqToSet(last.uploadedFiles) /\ remote[RemoteFile(p)] = raw[Resolve(p)])

\* C10 witness: a.txt was missing locally, Auto-Upload(upserted d.txt, deleted
\* a.txt) recreated it, uploaded both files, tracked d.txt, deleted nothing.
C10_Witness ==
  /\ last.op = "auto" /\ last.status = "ok"
  /\ last.deleted = {PA} /\ last.localCreated = {PA}
  /\ last.restoredProtectedFiles = <<PA>>
  /\ last.uploadedFiles = <<PA, PD>>
  /\ ~last.delCalled /\ tracked = {PD}

\* paths whose remote file the last operation actually removed
RemovedPaths == { p \in Paths : RemoteFile(p) \in last.removed }

\* C11: when Auto-Upload completes its transport step, the persisted tracked
\* set is (tracked set read, plus the uploaded paths outside Baseline.files)
\* minus the paths deleted remotely; an uploaded non-baseline path that was
\* not deleted is tracked.
C11_TrackedAfterSuccess ==
  (last.op = "auto" /\ last.status = "ok") =>
    /\ tracked = (last.trackedRead \cup
                    { p \in SeqToSet(last.uploadedFiles) : p \notin BaselineSet(baseline) })
                 \ RemovedPaths
    /\ \A p \in SeqToSet(last.uploadedFiles) :
         (p \notin BaselineSet(baseline) /\ p \notin RemovedPaths) => p \in tracked

\* C12: a successful Auto-Upload drops a path from the tracked set only if
\* its remote file was actually removed (a permission-skipped delete keeps it
\* tracked), and a tracked deleted path whose remote file was removed is
\* dropped.
C12_UntrackedOnlyIfDeleted ==
  (last.op = "auto" /\ last.status = "ok") =>
    /\ \A p \in last.trackedRead \ tracked : p \in RemovedPaths
    /\ \A p \in last.deleted \cap last.trackedRead : p \in RemovedPaths => p \notin tracked

\* what a first-time Initial Sync with a healthy transport captures from the
\* server as it is now
FirstTimeCapture(rem, perms) ==
  captureInitialRawSnapshot(downloadInitialSkin(rem, NoFiles, <<>>, perms).local)

\* C19: an Initial Sync whose download fails writes no Baseline, raw mirror or
\* sync-rule state; from the state it leaves, an Initial Sync over a healthy
\* transport succeeds, and every successful Initial Sync captures the Baseline
\* and mirror a first-time one would, whatever the working copy held before.
C19_FailedSyncIsRetryable ==
  [][ last'.op = "sync" =>
        /\ last'.status = "raise" =>
             /\ UNCHANGED <<baseline, raw, tracked>>
             /\ downloadInitialSkin(remote', local', <<>>, acl').status = "ok"
        /\ last'.status = "ok" =>
             /\ baseline' = FirstTimeCapture(remote, acl).baseline
             /\ raw' = FirstTimeCapture(remote, acl).raw
             /\ tracked' = {} ]_vars

\* C19 witness: the download failed on a project without Baseline and nothing
\* was captured.
C19_Witness ==
  /\ last.op = "sync" /\ last.status = "raise"
  /\ ~baseline.exists /\ raw = NoFiles /\ tracked = {}

\* the list is in ascending order without repetition
IsSortedPaths(list) ==
  \A i \in 1..Len(list), j \in 1..Len(list) : i < j => PathLess(list[i], list[j])

\* C20: right after a successful FTP Initial Sync, Baseline.files is the
\* sorted list of the regular files of the working copy, each of them has an
\* identical regular-file copy in the raw mirror, the mirror holds nothing
\* else, and trackedNewServerFiles is empty.
C20_CaptureMatchesLocal ==
  (last.op = "sync" /\ last.status = "ok") =>
    /\ baseline.exists
    /\ baseline.files = SnapshotPaths(local)
    /\ SeqToSet(last.baselineFiles) = baseline.files
    /\ IsSortedPaths(last.baselineFiles)
    /\ \A f \in baseline.files : raw[f] # 0 /\ raw[f] = local[f]
    /\ SnapshotPaths(raw) = baseline.files
    /\ tracked = {}

\* C20 witness: a second capture, taken when d.txt had been uploaded and
\* tracked, lists both files and resets the tracked set.
C20_Witness ==
  /\ last.op = "sync" /\ last.status = "ok"
  /\ last.trackedRead = {PD} /\ last.baselineFiles = <<PA, PD>>
  /\ tracked = {}

\* ------------------------------------------- claims about the transport
AllTransient(errs) == \A i \in 1..Len(errs) : IsRetryableMessage(errs[i].msg)

\* C13: a transport call never makes more than 3 connection attempts, and a
\* call in which every attempt raised a transient error has made exactly 3
\* and raises the error of the last one; it does not return a result.
C13_RetryBound ==
  ftp.op # "none" =>
    /\ ftp.opened <= MAX_RETRY
    /\ (FtpDone /\ Len(ftp.errors) = ftp.opened /\ AllTransient(ftp.errors)) =>
         /\ ftp.opened = 3
         /\ ftp.result = "raise"
         /\ ftp.raised = ftp.errors[3].msg

\* C13 witness: an upload whose three attempts each stored the first file and
\* then lost the data connection.
C13_Witness ==
  /\ FtpDone /\ ftp.op = "upload" /\ ftp.result = "raise"
  /\ Len(ftp.errors) = 3 /\ AllTransient(ftp.errors)
  /\ \A i \in 1..3 : ftp.errors[i].pos = 2

\* C14: an error that is not transient and was not skipped at item level is
\* raised at once: it is the last error of the call, no connection attempt
\* follows it, and the call raises it.
C14_FatalRaisesAtOnce ==
  ftp.op # "none" =>
    \A i \in 1..Len(ftp.errors) :
      ~IsRetryableMessage(ftp.errors[i].msg) =>
        /\ i = Len(ftp.errors)
        /\ ftp.opened = i
        /\ ftp.pc \in {"finally", "done"}
        /\ ftp.pc = "finally" => ftp.pending = "throw"
        /\ ftp.pc = "done" => (ftp.result = "raise" /\ ftp.raised = ftp.errors[i].msg)

\* C14 witness: the first attempt failed with a transient error, the second
\* with one that is not, and the call ended there.
C14_Witness ==
  /\ FtpDone /\ ftp.result = "raise" /\ ftp.opened = 2
  /\ Len(ftp.errors) = 2
  /\ IsRetryableMessage(ftp.errors[1].msg) /\ ~IsRetryableMessage(ftp.errors[2].msg)

\* the call would succeed over a connection without faults
HealthyCallSucceeds ==
  CASE ftp.op = "download" ->
         downloadInitialSkin(ftp.remote0, ftp.local0, <<>>, acl).status = "ok"
    [] ftp.op = "upload" -> uploadDeltaFiles(ftp.remote0, ftp.files, <<>>).status = "ok"
    [] ftp.op = "delete" ->
         deleteRemoteFiles(ftp.remote0, ftp.paths, <<>>, acl).status = "ok"

\* C15: if the connection raises transient errors on fewer than 3 attempts
\* and is healthy afterwards, a call that succeeds over a healthy connection
\* returns success, also when a delete or upload batch was interrupted
\* half-way.
C15_TransientRecovered ==
  (/\ FtpDone
   /\ Len(ftp.script) < MAX_RETRY
   /\ \A i \in 1..Len(ftp.script) : ftp.script[i] \in TransientFaults
   /\ HealthyCallSucceeds) => ftp.result = "ok"

\* a reply of the permission-denied class: code 550, or the words themselves
IsPermissionClassReply(msg) ==
  \/ msg # <<>> /\ msg[1] = "550"
  \/ HasPhrase(msg, "Permission", "denied")

\* C16: in downloadInitialSkin and deleteRemoteFiles an item whose listing,
\* download or delete answers with a permission-denied class reply (550
\* included) is skipped: no such reply to an item is raised as the error of
\* an attempt.
C16_PermissionClassSkipped ==
  ftp.op \in {"download", "delete"} =>
    \A i \in 1..Len(ftp.errors) :
      ftp.errors[i].pos >= 1 => ~IsPermissionClassReply(ftp.errors[i].msg)

\* C17: a call has at most one connection open, the one of the current
\* attempt; it is closed before the next attempt starts and before the call
\* returns or raises.
C17_ConnectionsClosed ==
  ftp.op # "none" =>
    /\ ftp.open \in {0, 1}
    /\ ftp.pc \in {"new", "done"} => ftp.open = 0
    /\ ftp.pc \notin {"new", "done"} => (ftp.open = 1 /\ ftp.opened = ftp.attempt)

\* C17 witness: a call that ended after three attempts, each on a connection
\* of its own.
C17_Witness ==
  /\ FtpDone /\ ftp.opened = 3 /\ ftp.open = 0
  /\ ftp.result = "ok" /\ Len(ftp.errors) = 2

\* C18: downloadInitialSkin empties the working copy only in an attempt that
\* has listed the remote path; a call that never listed it raises and leaves
\* the working copy as it was.
C18_ClearOnlyAfterListing ==
  ftp.op = "download" =>
    /\ ftp.clearedIn <= ftp.listedIn
    /\ ftp.listedIn = 0 => local = ftp.local0
    /\ (FtpDone /\ ftp.listedIn = 0) => ftp.result = "raise"

\* C18 witness: the remote path did not exist; the call raised the reply of
\* the listing and the file of the working copy is still there.
C18_Witness ==
  /\ FtpDone /\ ftp.op = "download" /\ ftp.result = "raise"
  /\ ftp.listedIn = 0 /\ ftp.raised = MsgNoSuchFile
  /\ ftp.local0 # NoFiles /\ local = ftp.local0

\* ------------------------------------------------ Baseline and raw mirror
\* C21: Auto-Upload, Deploy and Restore leave the persisted Baseline and the
\* raw mirror exactly as they were, whether they succeed or fail; the only
\* step that changes either is an Initial Sync whose download succeeded and
\* was followed by the capture.
C21_BaselineAndMirrorFrozen ==
  [][ /\ last'.op \in {"auto", "deploy", "restore"} => UNCHANGED <<baseline, raw>>
      /\ (baseline' # baseline \/ raw' # raw)
           => /\ last'.op = "sync" /\ last'.status = "ok"
              /\ raw' = local'
              /\ baseline' = [exists |-> TRUE, files |-> SnapshotPaths(local')] ]_vars

\* a Restore that rewrote the working copy and then failed on the server,
\* with the Baseline and the mirror still those of the Initial Sync
C21_Witness ==
  /\ last.op = "restore" /\ last.transportFailed
  /\ last.localRemoved # {}
  /\ baseline.exists /\ baseline.files = SnapshotPaths(raw) /\ baseline.files # {}

\* ------------------------------------------------------ missing settings
\* C22: Auto-Upload on an FTP-solution project whose host, user or password
\* is empty does not raise: it returns uploaded = false with zero counts,
\* makes no transport call and leaves the SyncRuleState unchanged.
C22_MissingCredentialsSkip ==
  [][ (/\ last'.op = "auto"
       /\ config.solutionType \in {"cafe24", "godomall"}
       /\ ~config.ftpComplete)
        => /\ ~last'.raised
           /\ last'.uploaded = FALSE
           /\ last'.uploadedCount = 0 /\ last'.deletedCount = 0
           /\ last'.uploadedFiles = <<>> /\ last'.deletedFiles = <<>>
           /\ ~last'.upCalled /\ ~last'.delCalled /\ ~last'.dlCalled
           /\ UNCHANGED <<tracked, remote>> ]_vars

\* a skipped Auto-Upload whose batch named deleted paths while the working
\* copy held files
C22_Witness ==
  /\ last.op = "auto" /\ last.status = "skipped" /\ last.attempted
  /\ ~config.ftpComplete
  /\ last.deleted # {}
  /\ local # NoFiles

\* --------------------------------------------------- configuration errors
\* the settings (or the missing baseline) make the operation stop at its
\* checks: unsupported solution type, missing host/user/password, no baseline
HasConfigurationError(op) ==
  LET ftpSolution == config.solutionType \in {"cafe24", "godomall"}
  IN \/ op \in {"sync", "auto"} /\ (~ftpSolution \/ ~config.ftpComplete)
     \/ op = "deploy" /\ ftpSolution /\ ~config.ftpComplete
     \/ op = "restore" /\ (~ftpSolution \/ ~config.ftpComplete \/ ~baseline.exists)

C24_TransportErrorRaised ==
  (IsEngineOp /\ last.transportFailed) => last.raised

\* C24: a transport error that survives the retries is raised to the caller
\* by Initial Sync, Deploy and Restore; Auto-Upload catches it and returns
\* normally a result with attempted = true, uploaded = false, zero counts and
\* empty uploaded/deleted lists.
C24_TransportErrorRaisedExceptAutoUpload ==
  (IsEngineOp /\ last.transportFailed) =>
     IF last.op = "auto"
     THEN /\ ~last.raised /\ last.status = "failed"
          /\ last.attempted /\ ~last.uploaded
          /\ last.uploadedCount = 0 /\ last.deletedCount = 0
          /\ last.uploadedFiles = <<>> /\ last.deletedFiles = <<>>
     ELSE last.raised /\ last.status = "raise"

\* a Deploy whose upload failed for good
C24_Witness ==
  /\ last.op = "deploy" /\ last.upCalled
  /\ last.transportFailed /\ last.raised

\* ------------------------------------------ unrecoverable protected paths
\* the object autoUploadChangedFiles hands back (interface AutoUploadBatchResult)
AutoUploadBatchResult(r) ==
  [attempted |-> r.attempted, uploaded |-> r.uploaded,
   uploadedCount |-> r.uploadedCount, deletedCount |-> r.deletedCount,
   uploadedFiles |-> r.uploadedFiles, deletedFiles |-> r.deletedFiles,
   restoredProtectedFiles |-> r.restoredProtectedFiles,
   manualDeleteSkippedFiles |-> r.manualDeleteSkippedFiles]

\* the path lists among the fields of a returned result
ReturnedPathLists(res) ==
  { res[k] : k \in {"uploadedFiles", "deletedFiles", "restoredProtectedFiles",
                    "manualDeleteSkippedFiles"} }

\* C25: when Auto-Upload finds Baseline paths in deletedPaths without a
\* regular-file copy in the raw mirror, the returned result carries them in a
\* list of their own on every return path, none of them is deleted remotely,
\* and the rest of the batch is still processed.
C25_MissingRawReported ==
  (last.op = "auto" /\ last.protectedMissingRaw # <<>>) =>
     /\ \E l \in ReturnedPathLists(AutoUploadBatchResult(last)) :
          l = last.protectedMissingRaw
     /\ \A p \in SeqToSet(last.protectedMissingRaw) :
          /\ RemoteFile(p) \notin last.removed
          /\ p \notin SeqToSet(last.delArgs)

\* ------------------------------------------------------------------ Deploy
\* C26: Deploy never issues a remote delete and never changes the
\* SyncRuleState or the Baseline, even when files recorded in the
\* DeltaManifest have been deleted locally.
C26_DeployNeverDeletes ==
  [][ last'.op = "deploy"
        => /\ ~last'.delCalled /\ last'.delArgs = <<>> /\ last'.removed = {}
           /\ \A f \in Files : remote[f] # 0 => remote'[f] # 0
           /\ UNCHANGED <<tracked, baseline>> ]_vars

\* a Deploy that returned while the manifest still names a file that was
\* deployed earlier and has since been deleted locally; the file is still on
\* the server
C26_Witness ==
  /\ last.op = "deploy" /\ last.status = "ok"
  /\ \E f \in Files : manifest[f] # 0 /\ local[f] = 0 /\ remote[f] # 0

\* C27: Deploy uploads exactly the snapshot paths whose fingerprint is absent
\* from, or different from, the entry of the last DeltaManifest; without a
\* manifest every file of the snapshot is uploaded.
C27_DeployUploadsChangedFiles ==
  [][ (last'.op = "deploy" /\ FtpReady) =>
        LET changed == { f \in Files :
                           local[f] # 0 /\ (manifest[f] = 0 \/ manifest[f] # local[f]) }
        IN /\ last'.upCalled = (changed # {})
           /\ SeqToSet(last'.upArgs) = changed
           /\ manifest = NoFiles => SeqToSet(last'.upArgs) = SnapshotPaths(local)
           /\ last'.status = "ok"
                => /\ SeqToSet(last'.uploadedFiles) = changed
                   /\ last'.uploadedCount = Cardinality(changed)
                   /\ \A f \in changed : remote'[f] = local[f] ]_vars

\* a Deploy that uploaded one of two local files: the other one still had
\* the fingerprint recorded by the Deploy before
C27_Witness ==
  /\ last.op = "deploy" /\ last.status = "ok"
  /\ Len(last.uploadedFiles) = 1
  /\ Cardinality(SnapshotPaths(local)) = 2

\* C28: after every Deploy that returns successfully, the one that found no
\* changed file included, the persisted DeltaManifest maps exactly the files
\* of that Deploy's snapshot to their fingerprints: no entry is left for a
\* file that no longer exists locally.
C28_ManifestMatchesSnapshot ==
  (last.op = "deploy" /\ last.status = "ok" /\ FtpReady) =>
     \A f \in Files : manifest[f] = toDeltaManifest(local)[f]

C30_OneOperationInFlight ==
  ui.pc = "run" => EngineOpsInFlight <= 1

\* ------------------------------------------------------- count of deletes
\* C31: the count returned by deleteRemoteFiles is the number of requested
\* paths the call actually removed from the remote tree, over all of its
\* connection attempts; paths skipped as permission-denied are not counted.
C31_DeleteCountIsRemoved ==
  (FtpDone /\ ftp.op = "delete" /\ ftp.result = "ok") =>
     LET gone == { f \in Files : ftp.remote0[f] # 0 /\ remote[f] = 0 }
     IN /\ ftp.count = Cardinality(gone)
        /\ gone \subseteq { RemoteFile(p) : p \in SeqToSet(ftp.paths) }
        /\ gone \cap acl.noDelete = {}

\* a call that needed a second connection, removed one path and skipped one
\* for which the server denied permission
C31_Witness ==
  /\ FtpDone /\ ftp.op = "delete" /\ ftp.result = "ok"
  /\ ftp.opened >= 2
  /\ ftp.count = 1
  /\ \E p \in SeqToSet(ftp.paths) :
       RemoteFile(p) \in acl.noDelete /\ remote[RemoteFile(p)] # 0

\* ------------------------------------------------- order of transport calls
\* C32: within one Auto-Upload call every upload is issued before any remote
\* delete, one file at a time in sorted path order; when the upload step
\* fails, no remote delete is issued and the SyncRuleState is not written.
C32_UploadsBeforeDeletes ==
  [][ last'.op = "auto" =>
        LET up == last'.upArgs
            uploadFailed == last'.transportFailed /\ ~last'.delCalled
        IN /\ IsSortedPaths(up) /\ IsSortedPaths(last'.delArgs)
           \* the deletes come last: what they removed is gone at the end,
           \* also when the same path was uploaded by this call
           /\ \A f \in last'.removed : remote'[f] = 0
           \* a delete is issued only after every upload was stored
           /\ last'.delCalled =>
                \A i \in 1..Len(up) :
                   RemoteFile(up[i]) \notin last'.removed
                     => remote'[RemoteFile(up[i])] = local'[RemoteFile(up[i])]
           \* a failed upload stored the first files of the sorted list only
           /\ uploadFailed =>
                /\ \E n \in 0..Len(up) : \A i \in 1..Len(up) :
                     remote'[RemoteFile(up[i])] =
                       IF i <= n THEN local'[RemoteFile(up[i])]
                       ELSE remote[RemoteFile(up[i])]
                /\ last'.removed = {} /\ last'.delArgs = <<>>
                /\ \A f \in Files : remote[f] # 0 => remote'[f] # 0
                /\ UNCHANGED tracked ]_vars

\* an Auto-Upload whose upload step failed while its batch named a tracked
\* path to delete: that path is still tracked and still on the server
C32_Witness ==
  /\ last.op = "auto" /\ last.transportFailed
  /\ last.upCalled /\ ~last.delCalled
  /\ \E p \in last.deleted : p \in tracked /\ remote[RemoteFile(p)] # 0

\* ------------------------------------------------------- local frame of Auto-Upload
\* C36: Auto-Upload changes the working copy only by recreating Baseline
\* files that are absent from it; a file that exists locally when the call
\* runs is neither overwritten nor removed, also when its path is among the
\* deleted paths, and non-baseline files are never touched.
C36_ExistingLocalFilesUntouched ==
  [][ last'.op = "auto" =>
        \A f \in Files :
          /\ local[f] # 0 => local'[f] = local[f]
          /\ local'[f] # local[f] => f \in BaselineSet(baseline) /\ local'[f] = raw[f] ]_vars

\* ------------------------------------------------------- Deploy after Deploy
\* C39: a Deploy that fails during the upload leaves the DeltaManifest
\* unchanged, so the next Deploy uploads at least every file the failed one
\* was to upload; and of two successful Deploys with no local change in
\* between, the second uploads nothing.
C39_DeployRepeats ==
  [][ /\ (last'.op = "deploy" /\ last'.transportFailed) => UNCHANGED manifest
      /\ (last.op = "deploy" /\ last.transportFailed /\ last'.op = "deploy")
           => SeqToSet(last.upArgs) \subseteq SeqToSet(last'.upArgs)
      /\ (last.op = "deploy" /\ last.status = "ok" /\ FtpReady /\ last'.op = "deploy")
           => /\ ~last'.upCalled /\ last'.upArgs = <<>>
              /\ last'.status = "ok" /\ last'.uploadedCount = 0
              /\ UNCHANGED <<remote, manifest>> ]_vars

\* the second of two Deploys in a row: the first one stored the files and
\* wrote the manifest, the second found nothing to upload
C39_Witness ==
  /\ last.op = "deploy" /\ last.status = "ok" /\ FtpReady
  /\ ~last.upCalled
  /\ manifest # NoFiles /\ manifest = local

\* ------------------------------------------------- what Auto-Upload uploads
\* C33: Auto-Upload hands to the upload only paths that resolve to an
\* existing regular file strictly inside the working copy; a path resolving
\* to the root itself, to a place outside it, to a directory or to a missing
\* file is neither uploaded nor added to the tracked-new set.
C33_OnlyInsideRegularFilesUploaded ==
  [][ last'.op = "auto" =>
        /\ \A i \in 1..Len(last'.upArgs) :
             LET target == ResolveFrom(<<>>, last'.upArgs[i])
             IN /\ target # <<>> /\ target # Outside
                /\ target \in Files /\ local'[target] # 0
        /\ tracked' \ tracked \subseteq SeqToSet(last'.upArgs) ]_vars

\* a batch naming the root, an outside path, the directory b or a missing
\* file next to an existing file: the upload was called with the file alone
C33_Witness ==
  /\ last.op = "auto" /\ last.status = "ok" /\ last.upCalled
  /\ \E p \in last.upserted :
       \/ Resolve(p) = <<>>
       \/ Resolve(p) = Outside
       \/ Resolve(p) = <<"b">>
       \/ Resolve(p) \in Files /\ local[Resolve(p)] = 0
  /\ last.upserted \ SeqToSet(last.upArgs) # {}
  /\ tracked = SeqToSet(last.upArgs)

\* --------------------------------------------- Baseline paths, any spelling
\* the files the Baseline paths resolve to
BaselineTargets(b) == { Resolve(p) : p \in BaselineSet(b) }

\* C35: the Baseline / tracked-new classification does not depend on the
\* spelling of a path: a path that resolves to a Baseline file is never
\* added to the tracked-new set and never handed to the remote delete by
\* Auto-Upload or Restore, even when its text differs from the Baseline
\* entry after normalization.
C35_BaselineWhateverSpelling ==
  [][ last'.op \in {"auto", "restore"} =>
        /\ \A p \in tracked' \ tracked : Resolve(p) \notin BaselineTargets(baseline)
        /\ \A i \in 1..Len(last'.delArgs) :
             Resolve(last'.delArgs[i]) \notin BaselineTargets(baseline) ]_vars

\* ------------------------------------------------ Restore after a failure
\* C38: a Restore that aborts because the upload or the remote delete
\* raised leaves the tracked-new set exactly as it was, and a Restore
\* repeated on a healthy transport then completes, deletes the remaining
\* tracked-new files and clears the set.
C38_RestoreRetrySucceeds ==
  [][ /\ (last'.op = "restore" /\ last'.transportFailed) => UNCHANGED tracked
      /\ (last.op = "restore" /\ last.transportFailed
            /\ runRestoreInitialWith({<<>>}, {<<>>}))
           => /\ last'.status = "ok"
              /\ tracked' = {}
              /\ \A p \in tracked : p \notin BaselineSet(baseline)
                                      => remote'[RemoteFile(p)] = 0 ]_vars

\* ------------------------------------------------- Auto-Uploads interleaved
\* C37: when two Auto-Upload calls interleave at their await points and both
\* complete successfully, the tracked-new set contains the non-baseline
\* paths uploaded by both calls and none that either call deleted remotely:
\* no update of the sync-rule state is lost.
C37_NoLostUpdate ==
  (\A c \in CallIds : calls[c].pc = "done") =>
    /\ \A c \in CallIds : \A p \in calls[c].uploadPaths :
         (p \notin calls[c].baselineSet /\ \A d \in CallIds : p \notin calls[d].deletable)
           => p \in tracked
    /\ \A c \in CallIds : \A p \in calls[c].deletable :
         (\A d \in CallIds : p \notin calls[d].uploadPaths) => p \notin tracked

\* ------------------------------------------------- the reserved directory
\* C34: every user of a walk of the working copy leaves out the directory
\* of internal state (.codex-home under the working copy): the Baseline
\* captured by Initial Sync, the files Deploy uploads and the local files
\* Restore removes contain no path below it.
C34_ReservedDirectoryExcluded ==
  walk.pc = "done" =>
    \A p \in walk.captured \cup walk.changedFiles \cup walk.removed :
      Head(p) # CodexHome

====
